---- MODULE Spec2Model ----
(***************************************************************************)
(* music-mcp: the tool registry (ListTools handler) and the command        *)
(* dispatcher (CallTool handler) of src/index.ts, with the two osascript   *)
(* execution helpers.                                                      *)
(*                                                                         *)
(* Text is a sequence of tokens.  The characters that matter to a quoting  *)
(* discipline (double quote, backslash, single quote) are always tokens of *)
(* their own; every other token is a run of plain characters.  Escaping    *)
(* therefore works token by token exactly as the code's regular            *)
(* expressions work character by character.                                *)
(***************************************************************************)
EXTENDS Integers, Sequences, FiniteSets, TLC

VARIABLES pc, req, arm, call, resp, nexec, listed, world, library

vars == <<pc, req, arm, call, resp, nexec, listed, world, library>>

----------------------------------------------------------------------------
(* Bounds                                                                  *)

\* longest free-text argument (in characters) a request carries
MaxLen == 2

\* longest optional second free-text argument (the artist filter)
MaxFilterLen == 1

----------------------------------------------------------------------------
(* Characters and strings                                                  *)

DQ == "\""
BS == "\\"
SQ == "'"
NL == "\n"
SP == " "

\* the characters free-text arguments are drawn from
Alphabet == {"a", DQ, BS}

RECURSIVE TextsUpTo(_)
TextsUpTo(n) ==
  IF n = 0 THEN {<< >>}
  ELSE LET shorter == TextsUpTo(n - 1)
       IN  shorter \cup {Append(t, c) : t \in {u \in shorter : Len(u) = n - 1}, c \in Alphabet}

\* String.prototype.replace(/ch/g, rep): every occurrence of the character
\* ch is replaced by the characters rep
RECURSIVE ReplaceAll(_, _, _)
ReplaceAll(s, ch, rep) ==
  IF s = << >> THEN << >>
  ELSE (IF Head(s) = ch THEN rep ELSE <<Head(s)>>) \o ReplaceAll(Tail(s), ch, rep)

Whitespace == {SP, NL, "\t"}

RECURSIVE TrimStart(_)
TrimStart(s) ==
  IF s # << >> /\ Head(s) \in Whitespace THEN TrimStart(Tail(s)) ELSE s

RECURSIVE TrimEnd(_)
TrimEnd(s) ==
  IF s # << >> /\ s[Len(s)] \in Whitespace THEN TrimEnd(SubSeq(s, 1, Len(s) - 1)) ELSE s

\* String.prototype.trim()
Trim(s) == TrimEnd(TrimStart(s))

\* s contains t as a contiguous run
Contains(s, t) ==
  \E i \in 0..(Len(s) - Len(t)) : SubSeq(s, i + 1, i + Len(t)) = t

----------------------------------------------------------------------------
(* JavaScript values as they arrive in request.params.arguments            *)

Undef == [t |-> "undef"]
NaN == [t |-> "nan"]
Num(n) == [t |-> "num", v |-> n]
Str(s) == [t |-> "str", v |-> s]
Bool(b) == [t |-> "bool", v |-> b]
Obj(f) == [t |-> "obj", f |-> f]

IsStr(v) == v.t = "str"

\* v === 'literal'
StrictEq(v, s) == v.t = "str" /\ v.v = s

\* ToBoolean
Truthy(v) ==
  CASE v.t = "undef" -> FALSE
    [] v.t = "nan" -> FALSE
    [] v.t = "num" -> v.v # 0
    [] v.t = "str" -> v.v # << >>
    [] v.t = "bool" -> v.v
    [] OTHER -> TRUE

\* ToNumber, as Math.min applies it to its arguments
ToNumber(v) ==
  CASE v.t = "num" -> v
    [] v.t = "bool" -> Num(IF v.v THEN 1 ELSE 0)
    [] v.t = "str" -> IF v.v = << >> THEN Num(0) ELSE NaN
    [] OTHER -> NaN

MathMinMut(a, b) ==
  IF a.t = "nan" \/ b.t = "nan" THEN NaN
  ELSE IF a.v >= b.v THEN a ELSE b

MathMin(a, b) ==
  IF a.t = "nan" \/ b.t = "nan" THEN NaN
  ELSE IF a.v <= b.v THEN a ELSE b

MathMax(a, b) ==
  IF a.t = "nan" \/ b.t = "nan" THEN NaN
  ELSE IF a.v >= b.v THEN a ELSE b

\* ToString, as a template literal applies it to an interpolated value
ToStr(v) ==
  CASE v.t = "undef" -> <<"undefined">>
    [] v.t = "nan" -> <<"NaN">>
    [] v.t = "num" -> <<ToString(v.v)>>
    [] v.t = "str" -> v.v
    [] v.t = "bool" -> <<IF v.v THEN "true" ELSE "false">>
    [] OTHER -> <<"[object Object]">>

\* args.key: the value of a property, undefined when the key is missing
Get(args, key) ==
  IF key \in DOMAIN args.f THEN args.f[key] ELSE Undef

\* a template literal: every marker token of the template that env binds
\* is replaced by the text env gives it
RECURSIVE Interpolate(_, _)
Interpolate(tpl, env) ==
  IF tpl = << >> THEN << >>
  ELSE (IF Head(tpl) \in DOMAIN env THEN env[Head(tpl)] ELSE <<Head(tpl)>>)
         \o Interpolate(Tail(tpl), env)

----------------------------------------------------------------------------
(* The two execution helpers                                               *)

\* the command string runAppleScript hands to execSync: the script inside a
\* single-quoted shell literal, each single quote spliced as '"'"'
runAppleScript(script) ==
  <<"osascript -e ", SQ>> \o ReplaceAll(script, SQ, <<SQ, DQ, SQ, DQ, SQ>>) \o <<SQ>>

\* the command string runAppleScriptMulti hands to execSync: backslashes are
\* doubled first, then each double quote gets a backslash, and the script is
\* put inside a double-quoted shell literal
runAppleScriptMulti(script) ==
  LET escapedScript == ReplaceAll(ReplaceAll(script, BS, <<BS, BS>>), DQ, <<BS, DQ>>)
  IN  <<"osascript -e ", DQ>> \o escapedScript \o <<DQ>>

\* the command string of a script in its execution mode
CommandOf(mode, script) ==
  IF mode = "single" THEN runAppleScript(script) ELSE runAppleScriptMulti(script)

AppleScriptErrorMut(err) == <<"AppleScript error: ">> \o err.message

\* the message of the Error both helpers throw from their catch block:
\* err.stderr || err.message
AppleScriptError(err) ==
  <<"AppleScript error: ">> \o (IF Truthy(err.stderr) THEN ToStr(err.stderr) ELSE err.message)

----------------------------------------------------------------------------
(* The tool registry: the literal the ListTools handler returns            *)

Tool(name, properties, required) ==
  [name |-> name, properties |-> properties, required |-> required]

\* the array literal of descriptors
tools ==
  << Tool("music_play", {}, {}),
     Tool("music_pause", {}, {}),
     Tool("music_stop", {}, {}),
     Tool("music_next", {}, {}),
     Tool("music_previous", {}, {}),
     Tool("music_toggle_playback", {}, {}),
     Tool("music_get_current_track", {}, {}),
     Tool("music_get_player_state", {}, {}),
     Tool("music_get_volume", {}, {}),
     Tool("music_set_volume", {"volume"}, {"volume"}),
     Tool("music_get_position", {}, {}),
     Tool("music_set_position", {"position"}, {"position"}),
     Tool("music_get_shuffle", {}, {}),
     Tool("music_set_shuffle", {"enabled"}, {"enabled"}),
     Tool("music_get_repeat", {}, {}),
     Tool("music_set_repeat", {"mode"}, {"mode"}),
     Tool("music_get_playlists", {}, {}),
     Tool("music_get_playlist_tracks", {"playlist", "limit"}, {"playlist"}),
     Tool("music_play_playlist", {"playlist", "shuffle"}, {"playlist"}),
     Tool("music_search_library", {"query", "searchType", "limit"}, {"query"}),
     Tool("music_play_song", {"song", "artist"}, {"song"}),
     Tool("music_play_album", {"album", "artist"}, {"album"}),
     Tool("music_play_artist", {"artist", "shuffle"}, {"artist"}),
     Tool("music_add_to_queue", {"song", "artist"}, {"song"}),
     Tool("music_love_track", {}, {}),
     Tool("music_dislike_track", {}, {}),
     Tool("music_open", {}, {}),
     Tool("music_quit", {}, {}) >>

ListToolsMut ==
  [k |-> "tools", tools |-> IF listed.seen THEN SubSeq(tools, 1, Len(tools) - 1) ELSE tools]

\* the ListTools handler: return { tools: [...] }
ListTools == [k |-> "tools", tools |-> tools]

----------------------------------------------------------------------------
(* The script templates of the dispatcher.  A token "${x}" is the          *)
(* interpolation of x by the template literal.                             *)

\* index.ts 419-419
music_play_script ==
  <<"tell application ", DQ, "Music", DQ, " to play">>

\* index.ts 424-424
music_pause_script ==
  <<"tell application ", DQ, "Music", DQ, " to pause">>

\* index.ts 429-429
music_stop_script ==
  <<"tell application ", DQ, "Music", DQ, " to stop">>

\* index.ts 434-434
music_next_script ==
  <<"tell application ", DQ, "Music", DQ, " to next track">>

\* index.ts 439-439
music_previous_script ==
  <<"tell application ", DQ, "Music", DQ, " to previous track">>

\* index.ts 444-444
music_toggle_playback_script ==
  <<"tell application ", DQ, "Music", DQ, " to playpause">>

\* index.ts 450-464
music_get_current_track_script ==
  <<"\ntell application ", DQ, "Music", DQ,
     "\n  if player state is not stopped then\n    set currentTrack to current track\n    set trackInfo to ",
     DQ, "Name: ", DQ, " & name of currentTrack & ", DQ, BS, "n", DQ,
     "\n    set trackInfo to trackInfo & ", DQ, "Artist: ", DQ, " & artist of currentTrack & ",
     DQ, BS, "n", DQ, "\n    set trackInfo to trackInfo & ", DQ, "Album: ", DQ,
     " & album of currentTrack & ", DQ, BS, "n", DQ, "\n    set trackInfo to trackInfo & ", DQ,
     "Duration: ", DQ, " & (duration of currentTrack) & ", DQ, " seconds", BS, "n", DQ,
     "\n    set trackInfo to trackInfo & ", DQ, "Year: ", DQ, " & year of currentTrack & ", DQ,
     BS, "n", DQ, "\n    set trackInfo to trackInfo & ", DQ, "Genre: ", DQ,
     " & genre of currentTrack\n    return trackInfo\n  else\n    return ", DQ,
     "No track is currently playing", DQ, "\n  end if\nend tell">>

\* index.ts 471-471
music_get_player_state_script ==
  <<"tell application ", DQ, "Music", DQ, " to return player state as string">>

\* index.ts 479-479
music_get_volume_script ==
  <<"tell application ", DQ, "Music", DQ, " to return sound volume">>

\* index.ts 490-490
music_set_volume_script ==
  <<"tell application ", DQ, "Music", DQ, " to set sound volume to ", "${volume}">>

\* index.ts 500-500
music_get_position_script ==
  <<"tell application ", DQ, "Music", DQ, " to return player position">>

\* index.ts 510-510
music_set_position_script ==
  <<"tell application ", DQ, "Music", DQ, " to set player position to ", "${position}">>

\* index.ts 522-522
music_get_shuffle_script ==
  <<"tell application ", DQ, "Music", DQ, " to return shuffle enabled">>

\* index.ts 537-537
music_set_shuffle_script ==
  <<"tell application ", DQ, "Music", DQ, " to set shuffle enabled to ", "${enabled}">>

\* index.ts 551-551
music_get_repeat_script ==
  <<"tell application ", DQ, "Music", DQ, " to return song repeat as string">>

\* index.ts 561-561
music_set_repeat_script ==
  <<"tell application ", DQ, "Music", DQ, " to set song repeat to ", "${repeatValue}">>

\* index.ts 570-577
music_get_playlists_script ==
  <<"\ntell application ", DQ, "Music", DQ, "\n  set playlistNames to ", DQ, DQ,
     "\n  repeat with p in playlists\n    set playlistNames to playlistNames & name of p & ",
     DQ, BS, "n", DQ, "\n  end repeat\n  return playlistNames\nend tell">>

\* index.ts 588-607
music_get_playlist_tracks_script ==
  <<"\ntell application ", DQ, "Music", DQ, "\n  try\n    set thePlaylist to playlist ", DQ,
     "${safeName}", DQ, "\n    set trackList to ", DQ, DQ,
     "\n    set trackCount to 0\n    repeat with t in tracks of thePlaylist\n      if trackCount < ",
     "${limit}", " then\n        set trackList to trackList & name of t & ", DQ, " - ", DQ,
     " & artist of t & ", DQ, BS, "n", DQ,
     "\n        set trackCount to trackCount + 1\n      end if\n    end repeat\n    if trackList is ",
     DQ, DQ, " then\n      return ", DQ, "Playlist is empty", DQ,
     "\n    end if\n    return trackList\n  on error\n    return ", DQ, "Playlist not found: ",
     "${safeName}", DQ, "\n  end try\nend tell">>

\* index.ts 618-628
music_play_playlist_script ==
  <<"\ntell application ", DQ, "Music", DQ, "\n  try\n    set thePlaylist to playlist ", DQ,
     "${safeName}", DQ, "\n    ", "${shuffle}", "\n    play thePlaylist\n    return ", DQ,
     "Playing playlist: ", "${safeName}", DQ, "\n  on error\n    return ", DQ,
     "Playlist not found: ", "${safeName}", DQ, "\n  end try\nend tell">>

\* index.ts 644-658
music_search_library_script_songs ==
  <<"\ntell application ", DQ, "Music", DQ, "\n  set results to ", DQ, DQ,
     "\n  set matchCount to 0\n  repeat with t in (every track whose name contains ", DQ,
     "${safeQuery}", DQ, " or artist contains ", DQ, "${safeQuery}", DQ, " or album contains ",
     DQ, "${safeQuery}", DQ, ")\n    if matchCount < ", "${limit}",
     " then\n      set results to results & name of t & ", DQ, " - ", DQ, " & artist of t & ",
     DQ, " (", DQ, " & album of t & ", DQ, ")", BS, "n", DQ,
     "\n      set matchCount to matchCount + 1\n    end if\n  end repeat\n  if results is ",
     DQ, DQ, " then\n    return ", DQ, "No results found for: ", "${safeQuery}", DQ,
     "\n  end if\n  return results\nend tell">>

\* index.ts 660-679
music_search_library_script_albums ==
  <<"\ntell application ", DQ, "Music", DQ, "\n  set results to ", DQ, DQ,
     "\n  set albumList to {}\n  set matchCount to 0\n  repeat with t in (every track whose album contains ",
     DQ, "${safeQuery}", DQ, ")\n    if matchCount < ", "${limit}",
     " then\n      set albumKey to album of t & ", DQ, " - ", DQ,
     " & album artist of t\n      if albumKey is not in albumList then\n        set end of albumList to albumKey\n        set results to results & album of t & ",
     DQ, " - ", DQ, " & album artist of t & ", DQ, BS, "n", DQ,
     "\n        set matchCount to matchCount + 1\n      end if\n    end if\n  end repeat\n  if results is ",
     DQ, DQ, " then\n    return ", DQ, "No albums found for: ", "${safeQuery}", DQ,
     "\n  end if\n  return results\nend tell">>

\* index.ts 681-700
music_search_library_script_artists ==
  <<"\ntell application ", DQ, "Music", DQ, "\n  set results to ", DQ, DQ,
     "\n  set artistList to {}\n  set matchCount to 0\n  repeat with t in (every track whose artist contains ",
     DQ, "${safeQuery}", DQ, ")\n    if matchCount < ", "${limit}",
     " then\n      set artistName to artist of t\n      if artistName is not in artistList then\n        set end of artistList to artistName\n        set results to results & artistName & ",
     DQ, BS, "n", DQ,
     "\n        set matchCount to matchCount + 1\n      end if\n    end if\n  end repeat\n  if results is ",
     DQ, DQ, " then\n    return ", DQ, "No artists found for: ", "${safeQuery}", DQ,
     "\n  end if\n  return results\nend tell">>

\* index.ts 721-721
music_play_song_with_artist ==
  <<"set matchingTracks to (every track whose name contains ", DQ, "${safeSong}", DQ,
     " and artist contains ", DQ, "${safeArtist}", DQ, ")">>

\* index.ts 722-722
music_play_song_without_artist ==
  <<"set matchingTracks to (every track whose name contains ", DQ, "${safeSong}", DQ, ")">>

\* index.ts 716-734
music_play_song_script ==
  <<"\ntell application ", DQ, "Music", DQ, "\n  try\n    ", "${match}",
     "\n    if (count of matchingTracks) > 0 then\n      play item 1 of matchingTracks\n      set t to item 1 of matchingTracks\n      return ",
     DQ, "Playing: ", DQ, " & name of t & ", DQ, " - ", DQ,
     " & artist of t\n    else\n      return ", DQ, "Song not found: ", "${safeSong}", DQ,
     "\n    end if\n  on error errMsg\n    return ", DQ, "Error: ", DQ,
     " & errMsg\n  end try\nend tell">>

\* index.ts 748-748
music_play_album_with_artist ==
  <<"set albumTracks to (every track whose album is ", DQ, "${safeAlbum}", DQ,
     " and album artist contains ", DQ, "${safeArtist}", DQ, ")">>

\* index.ts 749-749
music_play_album_without_artist ==
  <<"set albumTracks to (every track whose album is ", DQ, "${safeAlbum}", DQ, ")">>

\* index.ts 743-760
music_play_album_script ==
  <<"\ntell application ", DQ, "Music", DQ, "\n  try\n    ", "${match}",
     "\n    if (count of albumTracks) > 0 then\n      play item 1 of albumTracks\n      return ",
     DQ, "Playing album: ", "${safeAlbum}", DQ, "\n    else\n      return ", DQ,
     "Album not found: ", "${safeAlbum}", DQ, "\n    end if\n  on error errMsg\n    return ",
     DQ, "Error: ", DQ, " & errMsg\n  end try\nend tell">>

\* index.ts 771-785
music_play_artist_script ==
  <<"\ntell application ", DQ, "Music", DQ,
     "\n  try\n    set artistTracks to (every track whose artist contains ", DQ,
     "${safeArtist}", DQ, ")\n    if (count of artistTracks) > 0 then\n      ", "${shuffle}",
     "\n      play item 1 of artistTracks\n      return ", DQ, "Playing songs by: ",
     "${safeArtist}", DQ, "\n    else\n      return ", DQ, "No songs found by: ",
     "${safeArtist}", DQ, "\n    end if\n  on error errMsg\n    return ", DQ, "Error: ", DQ,
     " & errMsg\n  end try\nend tell">>

\* index.ts 799-799
music_add_to_queue_with_artist ==
  <<"set matchingTracks to (every track whose name contains ", DQ, "${safeSong}", DQ,
     " and artist contains ", DQ, "${safeArtist}", DQ, ")">>

\* index.ts 800-800
music_add_to_queue_without_artist ==
  <<"set matchingTracks to (every track whose name contains ", DQ, "${safeSong}", DQ, ")">>

\* index.ts 794-811
music_add_to_queue_script ==
  <<"\ntell application ", DQ, "Music", DQ, "\n  try\n    ", "${match}",
     "\n    if (count of matchingTracks) > 0 then\n      set t to item 1 of matchingTracks\n      return ",
     DQ, "Found: ", DQ, " & name of t & ", DQ, " - ", DQ, " & artist of t & ", DQ, BS,
     "nNote: Direct queue manipulation requires manual action in Music app", DQ,
     "\n    else\n      return ", DQ, "Song not found: ", "${safeSong}", DQ,
     "\n    end if\n  on error errMsg\n    return ", DQ, "Error: ", DQ,
     " & errMsg\n  end try\nend tell">>

\* index.ts 818-826
music_love_track_script ==
  <<"\ntell application ", DQ, "Music", DQ,
     "\n  if player state is not stopped then\n    set loved of current track to true\n    return ",
     DQ, "Loved: ", DQ, " & name of current track\n  else\n    return ", DQ,
     "No track is playing", DQ, "\n  end if\nend tell">>

\* index.ts 832-840
music_dislike_track_script ==
  <<"\ntell application ", DQ, "Music", DQ,
     "\n  if player state is not stopped then\n    set disliked of current track to true\n    return ",
     DQ, "Disliked: ", DQ, " & name of current track\n  else\n    return ", DQ,
     "No track is playing", DQ, "\n  end if\nend tell">>

\* index.ts 847-847
music_open_script ==
  <<"tell application ", DQ, "Music", DQ, " to activate">>

\* index.ts 852-852
music_quit_script ==
  <<"tell application ", DQ, "Music", DQ, " to quit">>

----------------------------------------------------------------------------
(* What a switch arm does: run a script, return without running one, or    *)
(* throw                                                                   *)

NoEnv == [m \in {} |-> << >>]

\* the arm builds the script Interpolate(tpl, env), runs it in the given
\* mode and, when the run succeeds, returns text
Run(mode, tpl, env, text) ==
  [k |-> "exec", mode |-> mode, tpl |-> tpl, env |-> env,
   script |-> Interpolate(tpl, env), text |-> text]

\* the arm returns a result without running a script
Return(text, isError) == [k |-> "return", text |-> text, isError |-> isError]

\* the arm throws an Error with this message
Throw(message) == [k |-> "throw", message |-> message]

\* TypeError of a property read on undefined args
TypeErrorRead(prop) ==
  <<"Cannot read properties of undefined (reading ", SQ, prop, SQ, ")">>

\* TypeError of destructuring undefined args
TypeErrorDestructure(prop) ==
  <<"Cannot destructure property ", SQ, prop, SQ, " of ", SQ, "args", SQ, " as it is undefined.">>

\* TypeError of v.replace(...) when v is not a string
TypeErrorReplace(v, expr) ==
  IF v.t = "undef" THEN TypeErrorRead("replace")
  ELSE <<expr, ".replace is not a function">>

EscapeQuotesMut(s) == s

\* value.replace(/"/g, '\\"')
EscapeQuotes(s) == ReplaceAll(s, DQ, <<BS, DQ>>)

\* a destructuring default: the default replaces undefined only
DefaultMut(v, d) == v

Default(v, d) == IF v.t = "undef" THEN d ELSE v

MinVolume == 0
MaxVolume == 100
DefaultPlaylistLimit == 50
DefaultSearchLimit == 20

----------------------------------------------------------------------------
(* The switch arms of the CallTool handler.  result is the trimmed output  *)
(* of the script, read only in the text an arm returns after the run.      *)

music_play(args, result) ==
  Run("single", music_play_script, NoEnv, <<"Playback started">>)

music_pause(args, result) ==
  Run("single", music_pause_script, NoEnv, <<"Playback paused">>)

music_stop(args, result) ==
  Run("single", music_stop_script, NoEnv, <<"Playback stopped">>)

music_next(args, result) ==
  Run("single", music_next_script, NoEnv, <<"Skipped to next track">>)

music_previous(args, result) ==
  Run("single", music_previous_script, NoEnv, <<"Went to previous track">>)

music_toggle_playback(args, result) ==
  Run("single", music_toggle_playback_script, NoEnv, <<"Toggled playback">>)

music_get_current_track(args, result) ==
  Run("multi", music_get_current_track_script, NoEnv, result)

music_get_player_state(args, result) ==
  Run("single", music_get_player_state_script, NoEnv, <<"Player state: ">> \o result)

music_get_volume(args, result) ==
  Run("single", music_get_volume_script, NoEnv, <<"Volume: ">> \o result \o <<"%">>)

music_set_volume(args, result) ==
  IF args.t = "undef" THEN Throw(TypeErrorRead("volume"))
  ELSE LET volume == MathMax(Num(MinVolume),
                             MathMin(Num(MaxVolume), ToNumber(Get(args, "volume"))))
       IN  Run("single", music_set_volume_script, "${volume}" :> ToStr(volume),
               <<"Volume set to ">> \o ToStr(volume) \o <<"%">>)

music_get_position(args, result) ==
  Run("single", music_get_position_script, NoEnv,
      <<"Position: ">> \o result \o <<" seconds">>)

music_set_positionMut(args, result) ==
  IF args.t = "undef" THEN Throw(TypeErrorRead("position"))
  ELSE LET position == MathMax(Num(0), ToNumber(Get(args, "position")))
       IN  Run("single", music_set_position_script, "${position}" :> ToStr(position),
               <<"Position set to ">> \o ToStr(position) \o <<" seconds">>)

music_set_position(args, result) ==
  IF args.t = "undef" THEN Throw(TypeErrorRead("position"))
  ELSE LET position == Get(args, "position")
       IN  Run("single", music_set_position_script, "${position}" :> ToStr(position),
               <<"Position set to ">> \o ToStr(position) \o <<" seconds">>)

music_get_shuffleMut(args, result) ==
  Run("single", music_get_shuffle_script, NoEnv,
      <<"Shuffle: ", IF result = <<"false">> THEN "on" ELSE "off">>)

music_get_shuffle(args, result) ==
  Run("single", music_get_shuffle_script, NoEnv,
      <<"Shuffle: ", IF result = <<"true">> THEN "on" ELSE "off">>)

music_set_shuffle(args, result) ==
  IF args.t = "undef" THEN Throw(TypeErrorRead("enabled"))
  ELSE LET enabled == Get(args, "enabled")
       IN  Run("single", music_set_shuffle_script, "${enabled}" :> ToStr(enabled),
               <<"Shuffle ", IF Truthy(enabled) THEN "enabled" ELSE "disabled">>)

music_get_repeat(args, result) ==
  Run("single", music_get_repeat_script, NoEnv, <<"Repeat mode: ">> \o result)

RepeatValueMut(mode) ==
  IF StrictEq(mode, <<"off">>) THEN <<"off">>
  ELSE <<"all">>

\* const repeatValue = mode === 'off' ? 'off' : mode === 'one' ? 'one' : 'all'
RepeatValue(mode) ==
  IF StrictEq(mode, <<"off">>) THEN <<"off">>
  ELSE IF StrictEq(mode, <<"one">>) THEN <<"one">>
  ELSE <<"all">>

music_set_repeat(args, result) ==
  IF args.t = "undef" THEN Throw(TypeErrorRead("mode"))
  ELSE LET mode == Get(args, "mode")
           repeatValue == RepeatValue(mode)
       IN  Run("single", music_set_repeat_script, "${repeatValue}" :> repeatValue,
               <<"Repeat mode set to ">> \o ToStr(mode))

music_get_playlists(args, result) ==
  Run("multi", music_get_playlists_script, NoEnv, <<"Playlists:", NL>> \o result)

music_get_playlist_tracks(args, result) ==
  IF args.t = "undef" THEN Throw(TypeErrorDestructure("playlist"))
  ELSE LET playlist == Get(args, "playlist")
           limit == Default(Get(args, "limit"), Num(DefaultPlaylistLimit))
       IN  IF ~IsStr(playlist) THEN Throw(TypeErrorReplace(playlist, "playlist"))
           ELSE LET safeName == EscapeQuotes(playlist.v)
                IN  Run("multi", music_get_playlist_tracks_script,
                        "${safeName}" :> safeName @@ "${limit}" :> ToStr(limit), result)

ShuffleStatementMut(shuffle) == <<"set shuffle enabled to true">>

\* ${shuffle ? 'set shuffle enabled to true' : ''}
ShuffleStatement(shuffle) ==
  IF Truthy(shuffle) THEN <<"set shuffle enabled to true">> ELSE << >>

music_play_playlist(args, result) ==
  IF args.t = "undef" THEN Throw(TypeErrorDestructure("playlist"))
  ELSE LET playlist == Get(args, "playlist")
           shuffle == Default(Get(args, "shuffle"), Bool(FALSE))
       IN  IF ~IsStr(playlist) THEN Throw(TypeErrorReplace(playlist, "playlist"))
           ELSE LET safeName == EscapeQuotes(playlist.v)
                IN  Run("multi", music_play_playlist_script,
                        "${safeName}" :> safeName @@
                        "${shuffle}" :> ShuffleStatement(shuffle),
                        result)

SearchScriptMut(searchType) ==
  IF StrictEq(searchType, <<"albums">>) THEN music_search_library_script_albums
  ELSE IF StrictEq(searchType, <<"artists">>) THEN music_search_library_script_artists
  ELSE music_search_library_script_songs

\* the if / else-if chain on searchType: the template it assigns to script,
\* or none (the final else returns the validation error)
SearchScript(searchType) ==
  IF StrictEq(searchType, <<"songs">>) \/ StrictEq(searchType, <<"all">>)
  THEN music_search_library_script_songs
  ELSE IF StrictEq(searchType, <<"albums">>) THEN music_search_library_script_albums
  ELSE IF StrictEq(searchType, <<"artists">>) THEN music_search_library_script_artists
  ELSE << >>

music_search_library(args, result) ==
  IF args.t = "undef" THEN Throw(TypeErrorDestructure("query"))
  ELSE LET query == Get(args, "query")
           searchType == Default(Get(args, "searchType"), Str(<<"all">>))
           limit == Default(Get(args, "limit"), Num(DefaultSearchLimit))
       IN  IF ~IsStr(query) THEN Throw(TypeErrorReplace(query, "query"))
           ELSE LET safeQuery == EscapeQuotes(query.v)
                    env == "${safeQuery}" :> safeQuery @@ "${limit}" :> ToStr(limit)
                    script == SearchScript(searchType)
                IN  IF script = << >> THEN Return(<<"Invalid search type">>, TRUE)
                    ELSE Run("multi", script, env, result)

FilteredScriptMut(mode, outer, with, without, primary, prop, marker, artist, result) ==
  IF ~IsStr(primary) THEN Throw(TypeErrorReplace(primary, prop))
  ELSE IF Truthy(artist) /\ ~IsStr(artist) THEN Throw(TypeErrorReplace(artist, "artist"))
  ELSE Run(mode, Interpolate(outer, "${match}" :> without),
           marker :> EscapeQuotes(primary.v), result)

\* const safeArtist = artist ? artist.replace(/"/g, '\\"') : null, then the
\* template with ${safeArtist ? with : without} spliced in
FilteredScript(mode, outer, with, without, primary, prop, marker, artist, result) ==
  IF ~IsStr(primary) THEN Throw(TypeErrorReplace(primary, prop))
  ELSE IF Truthy(artist) /\ ~IsStr(artist) THEN Throw(TypeErrorReplace(artist, "artist"))
  ELSE LET safePrimary == EscapeQuotes(primary.v)
           safeArtist == IF Truthy(artist) THEN Str(EscapeQuotes(artist.v)) ELSE Undef
           tpl == Interpolate(outer, "${match}" :> (IF Truthy(safeArtist) THEN with ELSE without))
           env == IF Truthy(safeArtist)
                  THEN marker :> safePrimary @@ "${safeArtist}" :> safeArtist.v
                  ELSE marker :> safePrimary
       IN  Run(mode, tpl, env, result)

music_play_song(args, result) ==
  IF args.t = "undef" THEN Throw(TypeErrorDestructure("song"))
  ELSE FilteredScript("multi", music_play_song_script, music_play_song_with_artist,
                      music_play_song_without_artist, Get(args, "song"), "song",
                      "${safeSong}", Get(args, "artist"), result)

music_play_album(args, result) ==
  IF args.t = "undef" THEN Throw(TypeErrorDestructure("album"))
  ELSE FilteredScript("multi", music_play_album_script, music_play_album_with_artist,
                      music_play_album_without_artist, Get(args, "album"), "album",
                      "${safeAlbum}", Get(args, "artist"), result)

music_play_artist(args, result) ==
  IF args.t = "undef" THEN Throw(TypeErrorDestructure("artist"))
  ELSE LET artist == Get(args, "artist")
           shuffle == Default(Get(args, "shuffle"), Bool(TRUE))
       IN  IF ~IsStr(artist) THEN Throw(TypeErrorReplace(artist, "artist"))
           ELSE LET safeArtist == EscapeQuotes(artist.v)
                IN  Run("multi", music_play_artist_script,
                        "${safeArtist}" :> safeArtist @@
                        "${shuffle}" :> ShuffleStatement(shuffle),
                        result)

music_add_to_queueMut(args, result) ==
  IF args.t = "undef" THEN Throw(TypeErrorDestructure("song"))
  ELSE FilteredScript("multi", music_play_song_script, music_add_to_queue_with_artist,
                      music_add_to_queue_without_artist, Get(args, "song"), "song",
                      "${safeSong}", Get(args, "artist"), result)

music_add_to_queue(args, result) ==
  IF args.t = "undef" THEN Throw(TypeErrorDestructure("song"))
  ELSE FilteredScript("multi", music_add_to_queue_script, music_add_to_queue_with_artist,
                      music_add_to_queue_without_artist, Get(args, "song"), "song",
                      "${safeSong}", Get(args, "artist"), result)

music_love_track(args, result) ==
  Run("multi", music_love_track_script, NoEnv, result)

music_dislike_track(args, result) ==
  Run("multi", music_dislike_track_script, NoEnv, result)

music_open(args, result) ==
  Run("single", music_open_script, NoEnv, <<"Music app opened">>)

music_quit(args, result) ==
  Run("single", music_quit_script, NoEnv, <<"Music app closed">>)

\* the case labels of the switch, by the source's groups
PlaybackLabels ==
  {"music_play", "music_pause", "music_stop", "music_next", "music_previous",
   "music_toggle_playback"}

TrackInfoLabels == {"music_get_current_track", "music_get_player_state"}

VolumeLabels == {"music_get_volume", "music_set_volume"}

PositionLabels == {"music_get_position", "music_set_position"}

ShuffleRepeatLabels ==
  {"music_get_shuffle", "music_set_shuffle", "music_get_repeat", "music_set_repeat"}

LibraryLabels == {"music_get_playlists", "music_get_playlist_tracks", "music_play_playlist"}

SearchPlayLabels ==
  {"music_search_library", "music_play_song", "music_play_album", "music_play_artist",
   "music_add_to_queue"}

FavoritesLabels == {"music_love_track", "music_dislike_track"}

ApplicationLabelsMut == {"music_open"}

ApplicationLabels == {"music_open", "music_quit"}

CaseLabels ==
  PlaybackLabels \cup TrackInfoLabels \cup VolumeLabels \cup PositionLabels
    \cup ShuffleRepeatLabels \cup LibraryLabels \cup SearchPlayLabels \cup FavoritesLabels
    \cup ApplicationLabels

UnknownToolMut(name) == Return(<<"Unknown tool: ", name>>, FALSE)

\* default: the result for a name no case label matches
UnknownTool(name) == Return(<<"Unknown tool: ", name>>, TRUE)

\* the arm switch (name) selects
Branch(name) == IF name \in CaseLabels THEN name ELSE "default"

\* switch (name) { ... }
Dispatch(name, args, result) ==
  CASE Branch(name) = "music_play" -> music_play(args, result)
    [] Branch(name) = "music_pause" -> music_pause(args, result)
    [] Branch(name) = "music_stop" -> music_stop(args, result)
    [] Branch(name) = "music_next" -> music_next(args, result)
    [] Branch(name) = "music_previous" -> music_previous(args, result)
    [] Branch(name) = "music_toggle_playback" -> music_toggle_playback(args, result)
    [] Branch(name) = "music_get_current_track" -> music_get_current_track(args, result)
    [] Branch(name) = "music_get_player_state" -> music_get_player_state(args, result)
    [] Branch(name) = "music_get_volume" -> music_get_volume(args, result)
    [] Branch(name) = "music_set_volume" -> music_set_volume(args, result)
    [] Branch(name) = "music_get_position" -> music_get_position(args, result)
    [] Branch(name) = "music_set_position" -> music_set_position(args, result)
    [] Branch(name) = "music_get_shuffle" -> music_get_shuffle(args, result)
    [] Branch(name) = "music_set_shuffle" -> music_set_shuffle(args, result)
    [] Branch(name) = "music_get_repeat" -> music_get_repeat(args, result)
    [] Branch(name) = "music_set_repeat" -> music_set_repeat(args, result)
    [] Branch(name) = "music_get_playlists" -> music_get_playlists(args, result)
    [] Branch(name) = "music_get_playlist_tracks" -> music_get_playlist_tracks(args, result)
    [] Branch(name) = "music_play_playlist" -> music_play_playlist(args, result)
    [] Branch(name) = "music_search_library" -> music_search_library(args, result)
    [] Branch(name) = "music_play_song" -> music_play_song(args, result)
    [] Branch(name) = "music_play_album" -> music_play_album(args, result)
    [] Branch(name) = "music_play_artist" -> music_play_artist(args, result)
    [] Branch(name) = "music_add_to_queue" -> music_add_to_queue(args, result)
    [] Branch(name) = "music_love_track" -> music_love_track(args, result)
    [] Branch(name) = "music_dislike_track" -> music_dislike_track(args, result)
    [] Branch(name) = "music_open" -> music_open(args, result)
    [] Branch(name) = "music_quit" -> music_quit(args, result)
    [] OTHER -> UnknownTool(name)

\* what the handler hands back to the transport: a result, or a fault that
\* left the handler
Result(text, isError) == [k |-> "result", text |-> text, isError |-> isError]
Fault(message) == [k |-> "fault", message |-> message]

CatchMut(message) == Fault(message)

\* catch (error) { ... } around the switch: every Error thrown inside becomes
\* an error result carrying its message
Catch(message) == Result(<<"Error: ">> \o message, TRUE)

----------------------------------------------------------------------------
(* The Music application the scripts talk to: its library and its player,  *)
(* and what each script of the source does to them and prints              *)

Track(name, artist, album, albumArtist) ==
  [name |-> name, artist |-> artist, album |-> album, albumArtist |-> albumArtist,
   duration |-> <<"180.0">>, year |-> <<"1999">>, genre |-> <<"Rock">>]

Playlist(name, tracks) == [name |-> name, tracks |-> tracks]

\* a library without tracks and without playlists
EmptyLibrary == [tracks |-> << >>, playlists |-> << >>]

\* two tracks of one album by one artist, a playlist holding both and a
\* playlist holding none
SmallLibrary ==
  [tracks |-> <<Track(<<"a">>, <<"a", "b">>, <<"a", "c">>, <<"a", "b">>),
                Track(<<"a", "a">>, <<"a", "b">>, <<"a", "c">>, <<"a", "b">>)>>,
   playlists |-> <<Playlist(<<"p">>, <<1, 2>>), Playlist(<<"e">>, << >>)>>]

\* two tracks by two artists, of two albums whose album and album artist
\* differ and read the same once joined with " - "
JoinedLibrary ==
  [tracks |-> <<Track(<<"a">>, <<"a", "b">>, <<"a", SP, "-", SP, "c">>, <<"d">>),
                Track(<<"a", "a">>, <<"a", "e">>, <<"a">>, <<"c", SP, "-", SP, "d">>)>>,
   playlists |-> <<Playlist(<<"p">>, <<1, 2>>), Playlist(<<"e">>, << >>)>>]

Libraries == {SmallLibrary, JoinedLibrary}

\* the player: stopped, playing or paused; the current track (0: none);
\* the shuffle flag; the tracks marked loved and disliked
Stopped == [state |-> "stopped", current |-> 0, shuffle |-> FALSE, loved |-> {}, disliked |-> {}]

\* AppleScript's reading of a string literal: scanning from i inside the
\* literal, a backslash takes the next character with it and the first
\* double quote not taken that way ends the literal (0: it never ends)
RECURSIVE LiteralEnd(_, _, _)
LiteralEnd(s, i, escaped) ==
  IF i > Len(s) THEN 0
  ELSE IF escaped THEN LiteralEnd(s, i + 1, FALSE)
  ELSE IF s[i] = BS THEN LiteralEnd(s, i + 1, TRUE)
  ELSE IF s[i] = DQ THEN i
  ELSE LiteralEnd(s, i + 1, FALSE)

\* the value of a string literal with the given content: \c stands for c
RECURSIVE Unescape(_)
Unescape(s) ==
  IF s = << >> THEN << >>
  ELSE IF s[1] = BS /\ Len(s) >= 2 THEN <<s[2]>> \o Unescape(SubSeq(s, 3, Len(s)))
  ELSE <<s[1]>> \o Unescape(Tail(s))

\* the interpolations of free-text arguments
FreeTextMarkers ==
  {"${safeName}", "${safeQuery}", "${safeSong}", "${safeAlbum}", "${safeArtist}"}

\* where the template puts free text
Holes(tpl) == {i \in 1..Len(tpl) : tpl[i] \in FreeTextMarkers}

\* the template's own quotes around a hole
OpenQuote(tpl, h) ==
  CHOOSE j \in 1..(h - 1) : tpl[j] = DQ /\ \A i \in (j + 1)..(h - 1) : tpl[i] # DQ

CloseQuote(tpl, h) ==
  CHOOSE j \in (h + 1)..Len(tpl) : tpl[j] = DQ /\ \A i \in (h + 1)..(j - 1) : tpl[i] # DQ

\* the place in the script of the template's token j
ScriptPos(tpl, env, j) == Len(Interpolate(SubSeq(tpl, 1, j), env))

\* every literal the template opens around free text ends at the
\* template's own closing quote
LiteralsClosed(step) ==
  \A h \in Holes(step.tpl) :
    LiteralEnd(step.script, ScriptPos(step.tpl, step.env, OpenQuote(step.tpl, h)) + 1, FALSE)
      = ScriptPos(step.tpl, step.env, CloseQuote(step.tpl, h))

\* the numerals the scripts may hold
Numerals == {-10, -5, -1, 0, 1, 20, 30, 50, 51, 99, 100, 100000}

IsNumeral(text) == \E n \in Numerals : text = <<ToString(n)>>

NumeralValue(text) == CHOOSE n \in Numerals : text = <<ToString(n)>>

\* the interpolations that must read as a number or as a boolean for the
\* script to run
ValuesRead(step) ==
  /\ \A m \in DOMAIN step.env \cap {"${limit}", "${volume}", "${position}"} :
       IsNumeral(step.env[m])
  /\ \A m \in DOMAIN step.env \cap {"${enabled}"} : step.env[m] \in {<<"true">>, <<"false">>}

\* osascript compiles the script and every value in it reads as what the
\* statement around it needs. A literal that ends before or after the
\* template's quote leaves the rest of the template in the wrong lexical
\* state, which no template of the source survives.
Runnable(step) == LiteralsClosed(step) /\ ValuesRead(step)

\* the value the script holds for a free-text interpolation
Value(step, marker) == Unescape(step.env[marker])

Indices(s) == [i \in 1..Len(s) |-> i]

RECURSIVE ListingMut(_, _, _, _, _)
ListingMut(keys, lines, seen, count, limit) ==
  IF keys = << >> THEN << >>
  ELSE IF count < limit
       THEN Head(lines) \o ListingMut(Tail(keys), Tail(lines), seen \cup {Head(keys)},
                                      count + 1, limit)
       ELSE ListingMut(Tail(keys), Tail(lines), seen, count, limit)

\* the loop "repeat with t in ...: if count < limit then (if key is not in
\* list then) append line, count + 1": keys and lines of the items in
\* order, the keys already listed, the count so far
RECURSIVE Listing(_, _, _, _, _)
Listing(keys, lines, seen, count, limit) ==
  IF keys = << >> THEN << >>
  ELSE IF count < limit /\ Head(keys) \notin seen
       THEN Head(lines) \o Listing(Tail(keys), Tail(lines), seen \cup {Head(keys)},
                                   count + 1, limit)
       ELSE Listing(Tail(keys), Tail(lines), seen, count, limit)

Dash == <<SP, "-", SP>>

\* what osascript prints for the value a script returns
Printed(text) == text \o <<NL>>

Outcome(out, w) == [out |-> Printed(out), world |-> w]

Playing(w, t) == [w EXCEPT !.state = "playing", !.current = t]

\* play: resumes, or starts with the first track when there is one
Play(w, lib) ==
  IF w.state # "stopped" THEN [w EXCEPT !.state = "playing"]
  ELSE IF Len(lib.tracks) > 0 THEN Playing(w, 1)
  ELSE w

\* index.ts 419-444: the transport commands
Transport(name, w, lib) ==
  CASE name = "music_play" -> Play(w, lib)
    [] name = "music_pause" -> IF w.state = "playing" THEN [w EXCEPT !.state = "paused"] ELSE w
    [] name = "music_stop" -> [w EXCEPT !.state = "stopped", !.current = 0]
    [] name = "music_next" ->
         IF w.state = "stopped" THEN w
         ELSE IF w.current < Len(lib.tracks) THEN [w EXCEPT !.current = w.current + 1]
         ELSE [w EXCEPT !.state = "stopped", !.current = 0]
    [] name = "music_previous" ->
         IF w.state # "stopped" /\ w.current > 1 THEN [w EXCEPT !.current = w.current - 1]
         ELSE w
    [] name = "music_toggle_playback" ->
         IF w.state = "playing" THEN [w EXCEPT !.state = "paused"] ELSE Play(w, lib)

\* index.ts 450-464
CurrentTrackInfo(w, lib) ==
  IF w.state # "stopped"
  THEN LET t == lib.tracks[w.current]
       IN  <<"Name: ">> \o t.name \o <<NL, "Artist: ">> \o t.artist \o <<NL, "Album: ">>
             \o t.album \o <<NL, "Duration: ">> \o t.duration \o <<" seconds", NL, "Year: ">>
             \o t.year \o <<NL, "Genre: ">> \o t.genre
  ELSE <<"No track is currently playing">>

\* what the reads of state the model does not hold may print
VolumeOutputs == {<<"75">>, <<"0">>}
PositionOutputs == {<<"12.5">>, <<"missing value">>}
RepeatOutputs == {<<"off">>, <<"one">>, <<"all">>}

\* index.ts 570-577
PlaylistNames(lib) ==
  Listing(Indices(lib.playlists), [i \in 1..Len(lib.playlists) |-> lib.playlists[i].name \o <<NL>>],
          {}, 0, Len(lib.playlists) + 1)

\* playlist "name": the first playlist of that name, 0 when there is none
PlaylistNamed(lib, name) ==
  IF \E i \in 1..Len(lib.playlists) : lib.playlists[i].name = name
  THEN CHOOSE i \in 1..Len(lib.playlists) :
         /\ lib.playlists[i].name = name
         /\ \A j \in 1..(i - 1) : lib.playlists[j].name # name
  ELSE 0

\* index.ts 588-607
PlaylistTracks(step, w, lib) ==
  LET name == Value(step, "${safeName}")
      p == PlaylistNamed(lib, name)
      limit == NumeralValue(step.env["${limit}"])
  IN  IF p = 0 THEN <<"Playlist not found: ">> \o name
      ELSE LET ts == lib.playlists[p].tracks
               trackList ==
                 Listing(Indices(ts),
                         [i \in 1..Len(ts) |->
                            lib.tracks[ts[i]].name \o Dash \o lib.tracks[ts[i]].artist
                              \o <<NL>>],
                         {}, 0, limit)
           IN  IF trackList = << >> THEN <<"Playlist is empty">> ELSE trackList

PlayPlaylistMut(step, w, lib) ==
  LET name == Value(step, "${safeName}")
      p == PlaylistNamed(lib, name)
      shuffled == [w EXCEPT !.shuffle = (step.env["${shuffle}"] = <<"set shuffle enabled to true">>)]
  IN  IF p = 0 THEN Outcome(<<"Playlist not found: ">> \o name, w)
      ELSE IF lib.playlists[p].tracks = << >>
      THEN Outcome(<<"Playing playlist: ">> \o name, shuffled)
      ELSE Outcome(<<"Playing playlist: ">> \o name,
                   Playing(shuffled, lib.playlists[p].tracks[1]))

\* index.ts 618-628
PlayPlaylist(step, w, lib) ==
  LET name == Value(step, "${safeName}")
      p == PlaylistNamed(lib, name)
      shuffled == IF step.env["${shuffle}"] = <<"set shuffle enabled to true">>
                  THEN [w EXCEPT !.shuffle = TRUE] ELSE w
  IN  IF p = 0 THEN Outcome(<<"Playlist not found: ">> \o name, w)
      ELSE IF lib.playlists[p].tracks = << >>
      THEN Outcome(<<"Playing playlist: ">> \o name, shuffled)
      ELSE Outcome(<<"Playing playlist: ">> \o name,
                   Playing(shuffled, lib.playlists[p].tracks[1]))

\* every track whose ...: of the tracks of the library, in order, those
\* among matching
Whose(lib, matching) == SelectSeq(Indices(lib.tracks), LAMBDA i : i \in matching)

\* the tracks whose field contains the text
Containing(lib, field, text) ==
  {i \in 1..Len(lib.tracks) : Contains(lib.tracks[i][field], text)}

\* index.ts 644-700: the three search scripts
Search(step, w, lib) ==
  LET q == Value(step, "${safeQuery}")
      limit == NumeralValue(step.env["${limit}"])
      shape == step.tpl
      found ==
        CASE shape = music_search_library_script_songs ->
               Whose(lib, Containing(lib, "name", q) \cup Containing(lib, "artist", q)
                            \cup Containing(lib, "album", q))
          [] shape = music_search_library_script_albums ->
               Whose(lib, Containing(lib, "album", q))
          [] shape = music_search_library_script_artists ->
               Whose(lib, Containing(lib, "artist", q))
      keys ==
        CASE shape = music_search_library_script_songs -> [i \in 1..Len(found) |-> <<i>>]
          [] shape = music_search_library_script_albums ->
               [i \in 1..Len(found) |->
                  lib.tracks[found[i]].album \o Dash \o lib.tracks[found[i]].albumArtist]
          [] shape = music_search_library_script_artists ->
               [i \in 1..Len(found) |-> lib.tracks[found[i]].artist]
      lines ==
        CASE shape = music_search_library_script_songs ->
               [i \in 1..Len(found) |->
                  LET t == lib.tracks[found[i]]
                  IN  t.name \o Dash \o t.artist \o <<SP, "(">> \o t.album \o <<")", NL>>]
          [] OTHER -> [i \in 1..Len(found) |-> keys[i] \o <<NL>>]
      results == Listing(keys, lines, {}, 0, limit)
      none ==
        CASE shape = music_search_library_script_songs -> <<"No results found for: ">>
          [] shape = music_search_library_script_albums -> <<"No albums found for: ">>
          [] shape = music_search_library_script_artists -> <<"No artists found for: ">>
  IN  IF results = << >> THEN none \o q ELSE results

\* the filter statement of music_play_song, music_play_album and
\* music_add_to_queue: with the artist when the script holds one
Filtered(step, lib, primary, artistField) ==
  IF "${safeArtist}" \in DOMAIN step.env
  THEN Whose(lib, primary \cap Containing(lib, artistField, Value(step, "${safeArtist}")))
  ELSE Whose(lib, primary)

\* index.ts 716-734
PlaySong(step, w, lib) ==
  LET matchingTracks ==
        Filtered(step, lib, Containing(lib, "name", Value(step, "${safeSong}")), "artist")
  IN  IF Len(matchingTracks) > 0
      THEN LET t == lib.tracks[matchingTracks[1]]
           IN  Outcome(<<"Playing: ">> \o t.name \o Dash \o t.artist,
                       Playing(w, matchingTracks[1]))
      ELSE Outcome(<<"Song not found: ">> \o Value(step, "${safeSong}"), w)

\* index.ts 743-760
PlayAlbum(step, w, lib) ==
  LET albumTracks ==
        Filtered(step, lib,
                 {i \in 1..Len(lib.tracks) : lib.tracks[i].album = Value(step, "${safeAlbum}")},
                 "albumArtist")
  IN  IF Len(albumTracks) > 0
      THEN Outcome(<<"Playing album: ">> \o Value(step, "${safeAlbum}"),
                   Playing(w, albumTracks[1]))
      ELSE Outcome(<<"Album not found: ">> \o Value(step, "${safeAlbum}"), w)

PlayArtistMut(step, w, lib) ==
  LET artistTracks ==
        Whose(lib, Containing(lib, "artist", Value(step, "${safeArtist}")))
      shuffled == IF step.env["${shuffle}"] = <<"set shuffle enabled to true">>
                  THEN [w EXCEPT !.shuffle = TRUE] ELSE w
  IN  IF Len(artistTracks) > 0
      THEN Outcome(<<"Playing songs by: ">> \o Value(step, "${safeArtist}"),
                   Playing(shuffled, artistTracks[1]))
      ELSE Outcome(<<"No songs found by: ">> \o Value(step, "${safeArtist}"), Play(shuffled, lib))

\* index.ts 771-785
PlayArtist(step, w, lib) ==
  LET artistTracks ==
        Whose(lib, Containing(lib, "artist", Value(step, "${safeArtist}")))
      shuffled == IF step.env["${shuffle}"] = <<"set shuffle enabled to true">>
                  THEN [w EXCEPT !.shuffle = TRUE] ELSE w
  IN  IF Len(artistTracks) > 0
      THEN Outcome(<<"Playing songs by: ">> \o Value(step, "${safeArtist}"),
                   Playing(shuffled, artistTracks[1]))
      ELSE Outcome(<<"No songs found by: ">> \o Value(step, "${safeArtist}"), w)

\* index.ts 794-811
AddToQueue(step, w, lib) ==
  LET matchingTracks ==
        Filtered(step, lib, Containing(lib, "name", Value(step, "${safeSong}")), "artist")
  IN  IF Len(matchingTracks) > 0
      THEN LET t == lib.tracks[matchingTracks[1]]
           IN  Outcome(<<"Found: ">> \o t.name \o Dash \o t.artist
                         \o <<NL, "Note: Direct queue manipulation requires manual action in Music app">>,
                       w)
      ELSE Outcome(<<"Song not found: ">> \o Value(step, "${safeSong}"), w)

LoveTrackMut(w, lib) ==
  Outcome(<<"Loved: ">> \o (IF w.current = 0 THEN << >> ELSE lib.tracks[w.current].name),
          [w EXCEPT !.loved = @ \cup {w.current}, !.disliked = @ \ {w.current}])

\* index.ts 818-826. Marking a track loved takes its disliked mark away,
\* and the other way round
LoveTrack(w, lib) ==
  IF w.state # "stopped"
  THEN Outcome(<<"Loved: ">> \o lib.tracks[w.current].name,
               [w EXCEPT !.loved = @ \cup {w.current}, !.disliked = @ \ {w.current}])
  ELSE Outcome(<<"No track is playing">>, w)

\* index.ts 832-840
DislikeTrack(w, lib) ==
  IF w.state # "stopped"
  THEN Outcome(<<"Disliked: ">> \o lib.tracks[w.current].name,
               [w EXCEPT !.disliked = @ \cup {w.current}, !.loved = @ \ {w.current}])
  ELSE Outcome(<<"No track is playing">>, w)

\* what running the script of an arm to its end prints and does to the
\* player, for a script that is Runnable
Osascript(name, step, w, lib) ==
  CASE name \in PlaybackLabels -> {Outcome(<< >>, Transport(name, w, lib))}
    [] name = "music_get_current_track" -> {Outcome(CurrentTrackInfo(w, lib), w)}
    [] name = "music_get_player_state" -> {Outcome(<<w.state>>, w)}
    [] name = "music_get_volume" -> {Outcome(o, w) : o \in VolumeOutputs}
    [] name = "music_get_position" -> {Outcome(o, w) : o \in PositionOutputs}
    [] name = "music_get_shuffle" -> {Outcome(<<IF w.shuffle THEN "true" ELSE "false">>, w)}
    [] name = "music_set_shuffle" ->
         {Outcome(<< >>, [w EXCEPT !.shuffle = (step.env["${enabled}"] = <<"true">>)])}
    [] name = "music_get_repeat" -> {Outcome(o, w) : o \in RepeatOutputs}
    [] name = "music_get_playlists" -> {Outcome(PlaylistNames(lib), w)}
    [] name = "music_get_playlist_tracks" -> {Outcome(PlaylistTracks(step, w, lib), w)}
    [] name = "music_play_playlist" -> {PlayPlaylist(step, w, lib)}
    [] name = "music_search_library" -> {Outcome(Search(step, w, lib), w)}
    [] name = "music_play_song" -> {PlaySong(step, w, lib)}
    [] name = "music_play_album" -> {PlayAlbum(step, w, lib)}
    [] name = "music_play_artist" -> {PlayArtist(step, w, lib)}
    [] name = "music_add_to_queue" -> {AddToQueue(step, w, lib)}
    [] name = "music_love_track" -> {LoveTrack(w, lib)}
    [] name = "music_dislike_track" -> {DislikeTrack(w, lib)}
    [] name = "music_quit" -> {Outcome(<< >>, [w EXCEPT !.state = "stopped", !.current = 0])}
    [] OTHER -> {Outcome(<< >>, w)}

\* the faults the application may report to a running script
BridgeFaults == {<<"Not authorized to send Apple events to Music.">>}

\* the arms whose script runs its statements inside try ... on error
TrappingArms ==
  {"music_get_playlist_tracks", "music_play_playlist", "music_play_song", "music_play_album",
   "music_play_artist", "music_add_to_queue"}

\* what the script's on error block returns for a fault
OnError(name, step, errMsg) ==
  IF name \in {"music_get_playlist_tracks", "music_play_playlist"}
  THEN <<"Playlist not found: ">> \o Value(step, "${safeName}")
  ELSE <<"Error: ">> \o errMsg

\* the error execSync throws when osascript ends with a fault the script
\* did not trap
Uncaught(errMsg) ==
  [stderr |-> Str(<<"execution error: ">> \o errMsg), message |-> <<"Command failed: osascript">>]

----------------------------------------------------------------------------
(* Requests and the outcomes of execSync                                   *)

UnknownNames == {"unknown_tool", "music_Play", ""}

ToolNames == {tools[i].name : i \in 1..Len(tools)}

Names == CaseLabels \cup ToolNames \cup UnknownNames

FreeTexts == {Undef, Num(5)} \cup {Str(s) : s \in TextsUpTo(MaxLen)}

FilterTexts == {Undef, Num(5)} \cup {Str(s) : s \in TextsUpTo(MaxFilterLen)}

Volumes == {Undef, Str(<<"a">>)} \cup {Num(n) : n \in {-10, -1, 0, 1, 50, 99, 100, 101, 150}}

Positions == {Undef, Num(-5), Num(0), Num(30), Num(100000)}

Flags == {Undef, Bool(TRUE), Bool(FALSE)}

Modes == {Undef, Num(1), Str(<<"off">>), Str(<<"one">>), Str(<<"all">>), Str(<<"banana">>)}

SearchTypes ==
  {Undef, Num(1), Str(<< >>), Str(<<"songs">>), Str(<<"albums">>), Str(<<"artists">>), Str(<<"all">>),
   Str(<<"invalid">>)}

Limits == {Undef, Num(-1), Num(0), Num(1), Num(50)}

\* the argument mappings a request for the tool may carry: none at all, or
\* an object whose missing keys read as undefined
ArgsOf(name) ==
  {Undef} \cup
  CASE name = "music_set_volume" -> {Obj([volume |-> v]) : v \in Volumes}
    [] name = "music_set_position" -> {Obj([position |-> v]) : v \in Positions}
    [] name = "music_set_shuffle" -> {Obj([enabled |-> v]) : v \in Flags \cup {Str(<<"a">>)}}
    [] name = "music_set_repeat" -> {Obj([mode |-> v]) : v \in Modes}
    [] name = "music_get_playlist_tracks" ->
         {Obj([playlist |-> p, limit |-> l]) : p \in FreeTexts, l \in Limits}
    [] name = "music_play_playlist" ->
         {Obj([playlist |-> p, shuffle |-> s]) : p \in FreeTexts, s \in Flags}
    [] name = "music_search_library" ->
         {Obj([query |-> q, searchType |-> s, limit |-> l]) :
            q \in FreeTexts, s \in SearchTypes, l \in Limits}
    [] name = "music_play_song" ->
         {Obj([song |-> s, artist |-> a]) : s \in FreeTexts, a \in FilterTexts}
    [] name = "music_play_album" ->
         {Obj([album |-> s, artist |-> a]) : s \in FreeTexts, a \in FilterTexts}
    [] name = "music_play_artist" ->
         {Obj([artist |-> a, shuffle |-> s]) : a \in FreeTexts, s \in Flags}
    [] name = "music_add_to_queue" ->
         {Obj([song |-> s, artist |-> a]) : s \in FreeTexts, a \in FilterTexts}
    [] OTHER -> {Obj(NoEnv), Obj([volume |-> Num(50)])}

\* the errors execSync may throw when osascript does not run the script to
\* its end: with the child's standard error, with an empty one, or without
\* the property
ExecErrors ==
  {[stderr |-> s, message |-> <<"Command failed: osascript">>] :
     s \in {Undef, Str(<< >>), Str(<<"execution error: Music is not running">>)}}

NoReq == [kind |-> "none"]
NoCall == [k |-> "none"]
NoResp == [k |-> "none"]

\* a text that names nothing in Libraries
NoName == <<"z", DQ>>

\* the requests made of a server whose application holds one of Libraries:
\* texts that name something in it and a text that names nothing
LibraryArgsOf(name) ==
  CASE name = "music_set_volume" -> {Obj([volume |-> Num(50)])}
    [] name = "music_set_position" -> {Obj([position |-> Num(30)])}
    [] name = "music_set_shuffle" -> {Obj([enabled |-> v]) : v \in {Bool(TRUE), Bool(FALSE)}}
    [] name = "music_set_repeat" -> {Obj([mode |-> Str(<<"one">>)])}
    [] name = "music_get_playlist_tracks" ->
         {Obj([playlist |-> Str(p), limit |-> l]) :
            p \in {<<"p">>, <<"e">>, NoName}, l \in {Undef, Num(-1), Num(0), Num(1)}}
    [] name = "music_play_playlist" ->
         {Obj([playlist |-> Str(p), shuffle |-> f]) :
            p \in {<<"p">>, <<"e">>, NoName}, f \in Flags}
    [] name = "music_search_library" ->
         {Obj([query |-> Str(q), searchType |-> t, limit |-> l]) :
            q \in {<<"a">>, NoName},
            t \in {Undef, Str(<<"songs">>), Str(<<"albums">>), Str(<<"artists">>)},
            l \in {Undef, Num(-1), Num(0), Num(1)}}
    [] name = "music_play_song" ->
         {Obj([song |-> Str(v), artist |-> a]) :
            v \in {<<"a">>, NoName}, a \in {Undef, Str(<<"b">>), Str(NoName)}}
    [] name = "music_play_album" ->
         {Obj([album |-> Str(v), artist |-> a]) :
            v \in {<<"a", "c">>, <<"a">>}, a \in {Undef, Str(<<"b">>), Str(NoName)}}
    [] name = "music_play_artist" ->
         {Obj([artist |-> Str(v), shuffle |-> f]) : v \in {<<"b">>, NoName}, f \in Flags}
    [] name = "music_add_to_queue" ->
         {Obj([song |-> Str(v), artist |-> a]) :
            v \in {<<"a">>, NoName}, a \in {Undef, Str(<<"b">>), Str(NoName)}}
    [] OTHER -> {Obj(NoEnv)}

----------------------------------------------------------------------------
(* The server                                                              *)

Init ==
  /\ pc = "idle"
  /\ req = NoReq
  /\ arm = "none"
  /\ call = NoCall
  /\ resp = NoResp
  /\ nexec = 0
  /\ listed = [seen |-> FALSE, tools |-> << >>, failed |-> FALSE]
  /\ world = Stopped
  /\ library = EmptyLibrary

\* the same server beside an application that holds a library
InitLibrary ==
  /\ pc = "idle"
  /\ req = NoReq
  /\ arm = "none"
  /\ call = NoCall
  /\ resp = NoResp
  /\ nexec = 0
  /\ listed = [seen |-> FALSE, tools |-> << >>, failed |-> FALSE]
  /\ world = Stopped
  /\ library \in Libraries

ReadyMut == pc \in {"idle", "exec"}

\* the event loop takes up a request only when no handler is running:
\* both handlers run to their return without awaiting, and execSync blocks
\* the thread until the child process has ended
Ready == pc = "idle"

\* the ListTools handler: returns the registry, runs nothing
ListToolsRequest ==
  /\ Ready
  /\ pc' = "done"
  /\ req' = [kind |-> "list"]
  /\ resp' = ListTools
  /\ UNCHANGED <<arm, call, nexec, listed, world, library>>

\* the CallTool handler up to its return, its throw, or its call of execSync
CallToolRequest(name, args) ==
  /\ Ready
  /\ req' = [kind |-> "call", name |-> name, args |-> args]
  /\ arm' = Branch(name)
  /\ LET step == Dispatch(name, args, << >>)
     IN  CASE step.k = "exec" ->
                /\ pc' = "exec"
                /\ call' = [k |-> "call", mode |-> step.mode, tpl |-> step.tpl,
                            env |-> step.env, script |-> step.script,
                            command |-> CommandOf(step.mode, step.script),
                            status |-> "running"]
                /\ nexec' = nexec + 1
                /\ resp' = NoResp
           [] step.k = "return" ->
                /\ pc' = "done"
                /\ resp' = Result(step.text, step.isError)
                /\ UNCHANGED <<call, nexec>>
           [] step.k = "throw" ->
                /\ pc' = "done"
                /\ resp' = Catch(step.message)
                /\ UNCHANGED <<call, nexec>>
  /\ UNCHANGED <<listed, world, library>>

\* the script the handler is running: its template, what was interpolated
\* into it, and its text
Running == call

\* what the script in flight may print and leave the player in, when
\* it runs to its end
Outcomes ==
  IF pc = "exec" /\ Runnable(Running) THEN Osascript(arm, Running, world, library) ELSE {}

\* the call once execSync has returned: what the child printed, whether
\* the execution faulted, and the player as it was before
EndedWith(stdout, fault) ==
  [k |-> "call", mode |-> call.mode, tpl |-> call.tpl, env |-> call.env,
   script |-> call.script, command |-> call.command,
   status |-> "returned", fault |-> fault, stdout |-> stdout, before |-> world]

\* the call once execSync has thrown
EndedBy(err) ==
  [k |-> "call", mode |-> call.mode, tpl |-> call.tpl, env |-> call.env,
   script |-> call.script, command |-> call.command,
   status |-> "threw", fault |-> TRUE, err |-> err, before |-> world]

\* the helper's return value.trim() and the rest of the arm
Returned(stdout) == Result(Dispatch(req.name, req.args, Trim(stdout)).text, FALSE)

\* execSync returns the child's output: the helper trims it and the arm
\* builds its result from it
ExecSyncReturns(stdout, after) ==
  /\ pc = "exec"
  /\ pc' = "done"
  /\ resp' = Returned(stdout)
  /\ call' = EndedWith(stdout, FALSE)
  /\ world' = after
  /\ UNCHANGED <<req, arm, nexec, listed, library>>

\* the application reports a fault to the running script. A script that
\* runs inside try returns what its on error block returns, and execSync
\* returns it; any other script ends there, and execSync throws with the
\* fault on the child's standard error
ExecSyncFaults(errMsg) ==
  /\ pc = "exec"
  /\ Runnable(Running)
  /\ pc' = "done"
  /\ IF arm \in TrappingArms
     THEN /\ resp' = Returned(Printed(OnError(arm, Running, errMsg)))
          /\ call' = EndedWith(Printed(OnError(arm, Running, errMsg)), TRUE)
     ELSE /\ resp' = Catch(AppleScriptError(Uncaught(errMsg)))
          /\ call' = EndedBy(Uncaught(errMsg))
  /\ UNCHANGED <<req, arm, nexec, listed, world, library>>

ExecSyncThrowsMut(err) ==
  /\ pc = "exec"
  /\ pc' = "exec"
  /\ nexec' = nexec + 1
  /\ UNCHANGED <<req, arm, call, resp, listed, world, library>>

\* execSync throws: osascript did not start, did not compile the script or
\* was ended. The helper rethrows an AppleScript error, which the handler's
\* catch turns into an error result
ExecSyncThrows(err) ==
  /\ pc = "exec"
  /\ pc' = "done"
  /\ resp' = Catch(AppleScriptError(err))
  /\ call' = EndedBy(err)
  /\ UNCHANGED <<req, arm, nexec, listed, world, library>>

\* the transport sends the response; the server waits for the next request.
\* listed remembers the registry as last sent, and whether an invocation
\* has failed since
SendResponse ==
  /\ pc = "done"
  /\ pc' = "idle"
  /\ req' = NoReq
  /\ arm' = "none"
  /\ call' = NoCall
  /\ resp' = NoResp
  /\ nexec' = 0
  /\ listed' = IF resp.k = "tools"
               THEN [seen |-> TRUE, tools |-> resp.tools, failed |-> FALSE]
               ELSE IF ~listed.seen \/ (resp.k = "result" /\ ~resp.isError) THEN listed
               ELSE [listed EXCEPT !.failed = TRUE]
  /\ UNCHANGED <<world, library>>

Next ==
  \/ ListToolsRequest
  \/ Ready /\ \E name \in Names : \E args \in ArgsOf(name) : CallToolRequest(name, args)
  \/ \E o \in Outcomes : ExecSyncReturns(o.out, o.world)
  \/ pc = "exec" /\ \E errMsg \in BridgeFaults : ExecSyncFaults(errMsg)
  \/ pc = "exec" /\ \E err \in ExecErrors : ExecSyncThrows(err)
  \/ SendResponse

NextLibrary ==
  \/ Ready /\ \E name \in CaseLabels : \E args \in LibraryArgsOf(name) :
                CallToolRequest(name, args)
  \/ \E o \in Outcomes : ExecSyncReturns(o.out, o.world)
  \/ \E errMsg \in BridgeFaults : ExecSyncFaults(errMsg)
  \/ \E err \in ExecErrors : ExecSyncThrows(err)
  \/ SendResponse

Spec == Init /\ [][Next]_vars

SpecLibrary == InitLibrary /\ [][NextLibrary]_vars

----------------------------------------------------------------------------
(* The shell's reading of the multi-line command                           *)

\* longest script text (in characters) handed to runAppleScriptMulti on
\* its own
MaxScriptLen == 3

DOLLAR == "$"
\* the backtick, written by its code point: a TLA+ string cannot hold it
BACKTICK == "U+0060"

\* the characters those script texts are drawn from
ShellAlphabet == {"a", DQ, BS, DOLLAR, BACKTICK}

RECURSIVE ScriptsUpTo(_)
ScriptsUpTo(n) ==
  IF n = 0 THEN {<< >>}
  ELSE LET shorter == ScriptsUpTo(n - 1)
       IN  shorter \cup
             {Append(t, c) : t \in {u \in shorter : Len(u) = n - 1}, c \in ShellAlphabet}

\* what the shell puts in place of a parameter ($a, $$), in place of a
\* command substitution after running the command, and its refusal of a
\* command line it cannot parse
Expanded == "<value of a shell parameter>"
Substituted == "<output of a command run by the shell>"
Unquoted == "<text outside the literal>"
SyntaxError == "<sh: syntax error>"

\* the characters of a parameter name
NameChars == {"a"}

\* the first position from i on that is not part of a parameter name
RECURSIVE NameEnd(_, _)
NameEnd(s, i) ==
  IF i <= Len(s) /\ s[i] \in NameChars THEN NameEnd(s, i + 1) ELSE i

\* the position of the backtick that ends a command substitution begun
\* before i (a backslash takes the next character with it), 0 when none
RECURSIVE ClosingBacktick(_, _)
ClosingBacktick(s, i) ==
  IF i > Len(s) THEN 0
  ELSE IF s[i] = BS THEN ClosingBacktick(s, i + 2)
  ELSE IF s[i] = BACKTICK THEN i
  ELSE ClosingBacktick(s, i + 1)

\* sh reading a double-quoted literal from position i of s, after the
\* opening quote: a backslash quotes a following $, backtick, " or backslash and
\* stays otherwise; $ before a name or $ expands a parameter; a backtick
\* starts a command substitution that runs to the next backtick; an
\* unquoted double quote ends the literal
RECURSIVE DoubleQuoted(_, _)
DoubleQuoted(s, i) ==
  IF i > Len(s) THEN <<SyntaxError>>
  ELSE CASE s[i] = DQ -> IF i = Len(s) THEN << >> ELSE <<Unquoted>>
         [] s[i] = BS ->
              IF i = Len(s) THEN <<SyntaxError>>
              ELSE IF s[i + 1] \in {DOLLAR, BACKTICK, DQ, BS}
              THEN <<s[i + 1]>> \o DoubleQuoted(s, i + 2)
              ELSE IF s[i + 1] = NL THEN DoubleQuoted(s, i + 2)
              ELSE <<BS, s[i + 1]>> \o DoubleQuoted(s, i + 2)
         [] s[i] = DOLLAR ->
              IF i < Len(s) /\ s[i + 1] = DOLLAR
              THEN <<Expanded>> \o DoubleQuoted(s, i + 2)
              ELSE IF i < Len(s) /\ s[i + 1] \in NameChars
              THEN <<Expanded>> \o DoubleQuoted(s, NameEnd(s, i + 1))
              ELSE <<DOLLAR>> \o DoubleQuoted(s, i + 1)
         [] s[i] = BACKTICK ->
              LET j == ClosingBacktick(s, i + 1)
              IN  IF j = 0 THEN <<SyntaxError>>
                  ELSE <<Substituted>> \o DoubleQuoted(s, j + 1)
         [] OTHER -> <<s[i]>> \o DoubleQuoted(s, i + 1)

\* the argument sh passes to osascript for the command string of
\* runAppleScriptMulti, "osascript -e " followed by the literal; nothing
\* is run when the command line does not parse
ShellArgument(command) ==
  LET word == DoubleQuoted(command, 3)
  IN  IF \E k \in 1..Len(word) : word[k] = SyntaxError THEN <<SyntaxError>> ELSE word

\* runAppleScriptMulti is called with a script text and builds the
\* command string
RunMulti(script) ==
  /\ pc = "idle"
  /\ pc' = "exec"
  /\ call' = [k |-> "shell", mode |-> "multi", script |-> script,
              command |-> runAppleScriptMulti(script), status |-> "running"]
  /\ nexec' = nexec + 1
  /\ UNCHANGED <<req, arm, resp, listed, world, library>>

\* execSync hands the command string to sh, which reads the literal
ShellReads ==
  /\ pc = "exec"
  /\ call.k = "shell"
  /\ pc' = "done"
  /\ call' = [call EXCEPT !.status = "read"] @@ [argument |-> ShellArgument(call.command)]
  /\ UNCHANGED <<req, arm, resp, nexec, listed, world, library>>

\* the helper returns or throws; the next script text may follow
HelperEnds ==
  /\ pc = "done"
  /\ call.k = "shell"
  /\ pc' = "idle"
  /\ call' = NoCall
  /\ nexec' = 0
  /\ UNCHANGED <<req, arm, resp, listed, world, library>>

NextShell ==
  \/ \E script \in ScriptsUpTo(MaxScriptLen) : RunMulti(script)
  \/ ShellReads
  \/ HelperEnds

SpecShell == Init /\ [][NextShell]_vars

----------------------------------------------------------------------------
(* Properties                                                              *)

\* the request being handled is an invocation of the tool with an argument
\* object
Invoked(name) == req.kind = "call" /\ arm = name /\ req.args.t = "obj"

FreeTextArms ==
  {"music_get_playlist_tracks", "music_play_playlist", "music_search_library",
   "music_play_song", "music_play_album", "music_play_artist", "music_add_to_queue"}

\* the free-text values the invocation supplies as strings
FreeTextValues ==
  {v \in {Get(req.args, key) : key \in {"playlist", "query", "song", "album", "artist"}} :
     IsStr(v)}

\* C2: for every free-text argument of every tool, over strings that may
\* hold double quotes and backslashes, the string literal of the generated
\* script that holds the value ends exactly at the template's own closing
\* quote.
C2_LiteralEndsAtTemplateQuote ==
  (pc = "exec" /\ arm \in FreeTextArms) =>
    LET step == Dispatch(req.name, req.args, << >>)
    IN  \A h \in Holes(step.tpl) :
          LiteralEnd(call.script, ScriptPos(step.tpl, step.env, OpenQuote(step.tpl, h)) + 1,
                     FALSE)
            = ScriptPos(step.tpl, step.env, CloseQuote(step.tpl, h))

\* what the command holds for a value whose double quotes were escaped for
\* the script (\") and which was then escaped for the shell: \\\" for each
\* double quote, \\ for each backslash
EscapedInCommand(v) ==
  ReplaceAll(ReplaceAll(v, BS, <<BS, BS>>), DQ, <<BS, BS, BS, DQ>>)

\* C3: for every free-text argument holding a double quote, in every tool
\* that embeds free text, the command handed to execSync holds the argument
\* between the template's quotes with each of its double quotes escaped
\* (\\\"), and no double quote inside the command's shell literal stands
\* without a backslash before it.
C3_DoubleQuotesEscaped ==
  (pc = "exec" /\ arm \in FreeTextArms) =>
    /\ \A v \in FreeTextValues :
         Contains(v.v, <<DQ>>) =>
           Contains(call.command, <<BS, DQ>> \o EscapedInCommand(v.v) \o <<BS, DQ>>)
    /\ \A i \in 3..(Len(call.command) - 1) :
         call.command[i] = DQ => call.command[i - 1] = BS

\* a search whose query holds a double quote is in flight
C3_Witness ==
  /\ pc = "exec"
  /\ Invoked("music_search_library")
  /\ Get(req.args, "query") = Str(<<"a", DQ>>)
  /\ Contains(call.command, <<"a", BS, BS, BS, DQ>>)

\* C4: a tool name that is not a registered name is answered with
\* isError = TRUE and the text "Unknown tool: <name>", and no external
\* command is executed, whatever the arguments.
C4_UnknownToolRejected ==
  (req.kind = "call" /\ req.name \notin ToolNames) =>
    /\ pc = "done"
    /\ resp = Result(<<"Unknown tool: ", req.name>>, TRUE)
    /\ nexec = 0
    /\ call.k = "none"

\* an unregistered name was invoked with an argument object
C4_Witness ==
  /\ pc = "done"
  /\ req.kind = "call"
  /\ req.name = "unknown_tool"
  /\ req.args.t = "obj"
  /\ arm = "default"
  /\ resp.isError

RepeatModes == {<<"off">>, <<"one">>, <<"all">>}

\* C5: set_repeat with a mode outside {off, one, all} is rejected: no
\* external command is executed and the result has isError = TRUE.
C5_RepeatModeRejected ==
  (Invoked("music_set_repeat") /\ IsStr(Get(req.args, "mode"))
     /\ Get(req.args, "mode").v \notin RepeatModes) =>
    /\ nexec = 0
    /\ call.k = "none"
    /\ pc = "done" => resp.isError

SearchScopes == {<<"songs">>, <<"albums">>, <<"artists">>, <<"all">>}

\* C6: search_library with a searchType outside {songs, albums, artists,
\* all} is answered with isError = TRUE and the text "Invalid search type",
\* and no external command is executed, for every query string and limit.
C6_InvalidSearchTypeRejected ==
  (Invoked("music_search_library") /\ IsStr(Get(req.args, "query"))
     /\ Get(req.args, "searchType").t # "undef"
     /\ ~(IsStr(Get(req.args, "searchType")) /\ Get(req.args, "searchType").v \in SearchScopes)) =>
    /\ pc = "done"
    /\ resp = Result(<<"Invalid search type">>, TRUE)
    /\ nexec = 0
    /\ call.k = "none"

\* a search with searchType "invalid" was rejected
C6_Witness ==
  /\ pc = "done"
  /\ Invoked("music_search_library")
  /\ Get(req.args, "query") = Str(<<"a">>)
  /\ Get(req.args, "searchType") = Str(<<"invalid">>)
  /\ Get(req.args, "limit") = Num(1)
  /\ resp.isError

\* C7: for every number v, set_volume sends the player max(0, min(100, v)),
\* a value in [0, 100], and when the command succeeds returns the text
\* "Volume set to <that value>%" without an error.
C7_VolumeClamped ==
  (Invoked("music_set_volume") /\ Get(req.args, "volume").t = "num") =>
    LET v == Get(req.args, "volume").v
        clamped == IF v < 0 THEN 0 ELSE IF v > 100 THEN 100 ELSE v
    IN  /\ nexec = 1
        /\ call.k = "call"
        /\ call.script = <<"tell application ", DQ, "Music", DQ, " to set sound volume to ",
                           ToString(clamped)>>
        /\ \E n \in 0..100 : call.script[Len(call.script)] = ToString(n)
        /\ (pc = "done" /\ call.status = "returned") =>
             resp = Result(<<"Volume set to ", ToString(clamped), "%">>, FALSE)

\* set_volume with 150 has sent 100 and reported it
C7_Witness ==
  /\ pc = "done"
  /\ Invoked("music_set_volume")
  /\ Get(req.args, "volume") = Num(150)
  /\ call.status = "returned"
  /\ resp.text = <<"Volume set to ", "100", "%">>

\* C8: the registry and the switch are in lockstep: every name ListTools
\* returns selects an arm other than the default and is never answered with
\* "Unknown tool", every case label has a descriptor, and each name
\* appears in the registry exactly once. What is said of the registry as a
\* whole does not depend on the request and is evaluated between requests.
C8_RegistryDispatcherLockstep ==
  /\ pc = "idle" =>
       /\ \A i \in 1..Len(ListTools.tools) : Branch(ListTools.tools[i].name) # "default"
       /\ \A n \in CaseLabels :
            Cardinality({i \in 1..Len(ListTools.tools) : ListTools.tools[i].name = n}) = 1
       /\ \A i, j \in 1..Len(ListTools.tools) :
            ListTools.tools[i].name = ListTools.tools[j].name => i = j
  /\ (req.kind = "call" /\ req.name \in {ListTools.tools[i].name : i \in 1..Len(ListTools.tools)}) =>
       /\ arm # "default"
       /\ pc = "done" => resp # Result(<<"Unknown tool: ", req.name>>, TRUE)

\* after the registry was listed, its last name was invoked and ran its arm
C8_Witness ==
  /\ pc = "done"
  /\ listed.seen
  /\ req.kind = "call"
  /\ req.name = listed.tools[Len(listed.tools)].name
  /\ arm = "music_quit"
  /\ resp = Result(<<"Music app closed">>, FALSE)

\* C9: every ListTools request, whatever invocations were served before
\* it, returns the same ordered sequence of 28 descriptors as the request
\* before it, and executes no external command.
C9_ListToolsIdempotent ==
  (resp.k = "tools") =>
    /\ Len(resp.tools) = 28
    /\ listed.seen => resp.tools = listed.tools
    /\ nexec = 0
    /\ call.k = "none"

\* the registry is listed again after a failing invocation
C9_Witness ==
  /\ pc = "done"
  /\ resp.k = "tools"
  /\ listed.seen
  /\ listed.failed

\* C10: when execSync throws, in either execution mode, the result has
\* isError = TRUE and the text "Error: AppleScript error: <detail>", the
\* detail being the error's stderr when it has a non-empty one and the
\* error's message otherwise.
C10_ExecutionFailureReported ==
  (pc = "done" /\ call.k = "call" /\ call.status = "threw") =>
    LET detail == IF call.err.stderr.t = "str" /\ call.err.stderr.v # << >>
                  THEN call.err.stderr.v ELSE call.err.message
    IN  resp = Result(<<"Error: ", "AppleScript error: ">> \o detail, TRUE)

\* a multi-line script failed with content on its error stream
C10_Witness ==
  /\ pc = "done"
  /\ call.k = "call"
  /\ call.mode = "multi"
  /\ call.status = "threw"
  /\ call.err.stderr = Str(<<"execution error: Music is not running">>)
  /\ resp.text = <<"Error: ", "AppleScript error: ", "execution error: Music is not running">>

\* args with the property key set to v
With(args, key, v) == Obj((key :> v) @@ args.f)

\* the command string the handler generates for an invocation, none when
\* the arm runs no script
GeneratedCommand(name, args) ==
  LET step == Dispatch(name, args, << >>)
  IN  IF step.k = "exec" THEN CommandOf(step.mode, step.script) ELSE << >>

\* the defaults the tool descriptors declare for their optional properties
DeclaredDefaults ==
  <<[tool |-> "music_get_playlist_tracks", key |-> "limit", value |-> Num(50)],
    [tool |-> "music_search_library", key |-> "limit", value |-> Num(20)],
    [tool |-> "music_play_playlist", key |-> "shuffle", value |-> Bool(FALSE)],
    [tool |-> "music_play_artist", key |-> "shuffle", value |-> Bool(TRUE)],
    [tool |-> "music_search_library", key |-> "searchType", value |-> Str(<<"all">>)]>>

\* C14: when an optional argument is absent, the command handed to execSync
\* is the command generated for the same arguments with the declared
\* default supplied explicitly: limit 50 for music_get_playlist_tracks,
\* limit 20 and searchType all for music_search_library, shuffle false for
\* music_play_playlist, shuffle true for music_play_artist.
C14_AbsentEqualsDeclaredDefault ==
  \A i \in 1..Len(DeclaredDefaults) :
    LET d == DeclaredDefaults[i]
    IN  (Invoked(d.tool) /\ Get(req.args, d.key).t = "undef") =>
          /\ GeneratedCommand(d.tool, With(req.args, d.key, d.value)) # << >> => call.k = "call"
          /\ call.k = "call" =>
               call.command = GeneratedCommand(d.tool, With(req.args, d.key, d.value))

\* a search without searchType and without limit ran its command
C14_Witness ==
  /\ pc = "done"
  /\ Invoked("music_search_library")
  /\ Get(req.args, "searchType").t = "undef"
  /\ Get(req.args, "limit").t = "undef"
  /\ call.k = "call"
  /\ call.status = "returned"
  /\ Contains(call.command, <<"20">>)

ShuffleArms == {"music_play_playlist", "music_play_artist"}

\* the shuffle flag in effect: the supplied value, or the tool's declared
\* default when none is supplied
EffectiveShuffle ==
  LET shuffle == Get(req.args, "shuffle")
  IN  IF shuffle.t = "undef" THEN arm = "music_play_artist" ELSE shuffle = Bool(TRUE)

\* C15: the command music_play_playlist and music_play_artist generate
\* contains the statement "set shuffle enabled to true" if and only if the
\* effective shuffle flag is true.
C15_ShuffleStatementIffEffective ==
  \A n \in ShuffleArms :
    (Invoked(n) /\ call.k = "call") =>
      (Contains(call.command, <<"set shuffle enabled to true">>) <=> EffectiveShuffle)

\* music_play_artist ran with shuffle false and its command has no shuffle
\* statement
C15_Witness ==
  /\ pc = "done"
  /\ Invoked("music_play_artist")
  /\ Get(req.args, "shuffle") = Bool(FALSE)
  /\ call.k = "call"
  /\ call.status = "returned"
  /\ ~Contains(call.command, <<"set shuffle enabled to true">>)

\* C16: for each mode of off, one and all, music_set_repeat runs the script
\* that sets song repeat to that mode and, when the script has run, returns
\* the text "Repeat mode set to <mode>".
C16_RepeatModeForwarded ==
  \A m \in {"off", "one", "all"} :
    (Invoked("music_set_repeat") /\ StrictEq(Get(req.args, "mode"), <<m>>)) =>
      /\ call.k = "call"
      /\ call.script = <<"tell application ", DQ, "Music", DQ, " to set song repeat to ", m>>
      /\ call.command = runAppleScript(call.script)
      /\ (pc = "done" /\ call.status = "returned") =>
           resp = Result(<<"Repeat mode set to ", m>>, FALSE)

\* music_set_repeat ran with mode one
C16_Witness ==
  /\ pc = "done"
  /\ Invoked("music_set_repeat")
  /\ StrictEq(Get(req.args, "mode"), <<"one">>)
  /\ call.k = "call"
  /\ call.status = "returned"
  /\ resp.text = <<"Repeat mode set to ", "one">>

\* C17: for every number p, music_set_position runs the script that sets
\* player position to p itself and, when the script has run, returns the
\* text "Position set to p seconds"; no number is clamped or rejected.
C17_PositionForwarded ==
  (Invoked("music_set_position") /\ Get(req.args, "position").t = "num") =>
    LET p == ToString(Get(req.args, "position").v)
    IN  /\ call.k = "call"
        /\ call.script = <<"tell application ", DQ, "Music", DQ, " to set player position to ", p>>
        /\ call.command = runAppleScript(call.script)
        /\ (pc = "done" /\ call.status = "returned") =>
             resp = Result(<<"Position set to ", p, " seconds">>, FALSE)

\* music_set_position ran with a negative position
C17_Witness ==
  /\ pc = "done"
  /\ Invoked("music_set_position")
  /\ Get(req.args, "position") = Num(-5)
  /\ call.k = "call"
  /\ call.status = "returned"
  /\ resp.text = <<"Position set to ", "-5", " seconds">>

\* the arms with an optional artist filter: the filter statement with and
\* without the artist, and the marker and property of the primary field
ArtistFilters ==
  <<[tool |-> "music_play_song", with |-> music_play_song_with_artist,
     without |-> music_play_song_without_artist, marker |-> "${safeSong}", prop |-> "song"],
    [tool |-> "music_play_album", with |-> music_play_album_with_artist,
     without |-> music_play_album_without_artist, marker |-> "${safeAlbum}", prop |-> "album"],
    [tool |-> "music_add_to_queue", with |-> music_add_to_queue_with_artist,
     without |-> music_add_to_queue_without_artist, marker |-> "${safeSong}", prop |-> "song"]>>

\* what the script holds for a value: \" for each double quote
EscapedInScript(v) == ReplaceAll(v, DQ, <<BS, DQ>>)

\* the script filters on the primary field only
PrimaryOnly(a) ==
  /\ Contains(call.script,
              Interpolate(a.without, a.marker :> EscapedInScript(Get(req.args, a.prop).v)))
  /\ \A i \in 1..Len(call.script) :
       call.script[i] \notin {" and artist contains ", " and album artist contains "}

\* the script filters on the primary field and on the artist
Conjunction(a) ==
  Contains(call.script,
           Interpolate(a.with, a.marker :> EscapedInScript(Get(req.args, a.prop).v) @@
                               "${safeArtist}" :> EscapedInScript(Get(req.args, "artist").v)))

\* C18: music_play_song, music_play_album and music_add_to_queue filter on
\* the primary field only when artist is absent, and on the conjunction of
\* the primary field and the artist when artist is any supplied string.
C18_ArtistFilterWhenSupplied ==
  \A i \in 1..Len(ArtistFilters) :
    LET a == ArtistFilters[i]
        artist == Get(req.args, "artist")
    IN  (Invoked(a.tool) /\ call.k = "call") =>
          /\ artist.t = "undef" => PrimaryOnly(a)
          /\ artist.t = "str" => Conjunction(a)

\* C18, amended: the filter is on the primary field only when artist is
\* absent or the empty string, and on the conjunction of the primary field
\* and the artist when artist is a non-empty string.
C18_ArtistFilterWhenNonEmpty ==
  \A i \in 1..Len(ArtistFilters) :
    LET a == ArtistFilters[i]
        artist == Get(req.args, "artist")
    IN  (Invoked(a.tool) /\ call.k = "call") =>
          /\ (artist.t = "undef" \/ artist = Str(<< >>)) => PrimaryOnly(a)
          /\ (artist.t = "str" /\ artist.v # << >>) => Conjunction(a)

\* music_play_album ran with a non-empty artist, and its script filters on
\* album and album artist
C18_Witness ==
  /\ pc = "done"
  /\ Invoked("music_play_album")
  /\ Get(req.args, "artist") = Str(<<"a">>)
  /\ call.k = "call"
  /\ call.status = "returned"
  /\ Contains(call.script, <<" and album artist contains ", DQ, "a", DQ, ")">>)

\* the script of the invocation ran to its end without a fault
Ran == pc = "done" /\ call.k = "call" /\ call.status = "returned" /\ ~call.fault

\* C11: whenever the execution of a tool's command faults (the application
\* reports an error to the script, or osascript fails), the result has
\* isError = TRUE; so a fault is never answered like a search without a
\* match, which is not an error.
C11_BridgeFaultIsError ==
  (pc = "done" /\ call.k = "call" /\ call.fault) => (resp.k = "result" /\ resp.isError)

\* the artist filter of the request admits the text: there is no filter,
\* or the text contains it
ArtistAdmits(text) ==
  LET artist == Get(req.args, "artist")
  IN  Truthy(artist) => Contains(text, artist.v)

\* the tracks of the library a field of which holds the text
Holding(field, text) ==
  {i \in 1..Len(library.tracks) :
     \E j \in 0..(Len(library.tracks[i][field]) - Len(text)) :
       SubSeq(library.tracks[i][field], j + 1, j + Len(text)) = text}

\* the text the request names, and the message for no match: defined for
\* the arms that look something up
Named ==
  CASE arm \in {"music_get_playlist_tracks", "music_play_playlist"} ->
         [value |-> Get(req.args, "playlist").v, message |-> "Playlist not found: "]
    [] arm = "music_search_library" ->
         [value |-> Get(req.args, "query").v,
          message |-> IF StrictEq(Get(req.args, "searchType"), <<"albums">>)
                      THEN "No albums found for: "
                      ELSE IF StrictEq(Get(req.args, "searchType"), <<"artists">>)
                      THEN "No artists found for: "
                      ELSE "No results found for: "]
    [] arm \in {"music_play_song", "music_add_to_queue"} ->
         [value |-> Get(req.args, "song").v, message |-> "Song not found: "]
    [] arm = "music_play_album" ->
         [value |-> Get(req.args, "album").v, message |-> "Album not found: "]
    [] arm = "music_play_artist" ->
         [value |-> Get(req.args, "artist").v, message |-> "No songs found by: "]

LookupArms ==
  {"music_get_playlist_tracks", "music_play_playlist", "music_search_library",
   "music_play_song", "music_play_album", "music_play_artist", "music_add_to_queue"}

\* nothing in the library matches what the request names
NoMatch ==
  CASE arm \in {"music_get_playlist_tracks", "music_play_playlist"} ->
         \A i \in 1..Len(library.playlists) : library.playlists[i].name # Named.value
    [] arm = "music_search_library" ->
         IF StrictEq(Get(req.args, "searchType"), <<"albums">>)
         THEN Holding("album", Named.value) = {}
         ELSE IF StrictEq(Get(req.args, "searchType"), <<"artists">>)
         THEN Holding("artist", Named.value) = {}
         ELSE Holding("name", Named.value) \cup Holding("artist", Named.value)
                \cup Holding("album", Named.value) = {}
    [] arm \in {"music_play_song", "music_add_to_queue"} ->
         \A i \in Holding("name", Named.value) : ~ArtistAdmits(library.tracks[i].artist)
    [] arm = "music_play_album" ->
         \A i \in 1..Len(library.tracks) :
           library.tracks[i].album = Named.value => ~ArtistAdmits(library.tracks[i].albumArtist)
    [] arm = "music_play_artist" -> Holding("artist", Named.value) = {}

\* C12: when the script ran and nothing in the library matches the named
\* playlist, song, album, artist or query, the result is not an error, its
\* text is the not-found message followed by the requested value, and the
\* player is in the state it was in, playing what it was playing.
C12_NoMatchIsNotFound ==
  (Ran /\ arm \in LookupArms /\ NoMatch) =>
    /\ resp = Result(<<Named.message>> \o Named.value, FALSE)
    /\ world.state = call.before.state
    /\ world.current = call.before.current

\* music_play_artist named an artist the library with tracks does not
\* hold, while the player was stopped
C12_Witness ==
  /\ Ran
  /\ arm = "music_play_artist"
  /\ Len(library.tracks) > 0
  /\ NoMatch
  /\ call.before.state = "stopped"
  /\ resp.text = <<"No songs found by: ", "z", DQ>>

\* C13: when the player is stopped and the script ran, music_love_track and
\* music_dislike_track return "No track is playing" and
\* music_get_current_track returns "No track is currently playing", none
\* as an error, and no track's loved or disliked mark changes.
C13_StoppedPlayerExplained ==
  (Ran /\ call.before.state = "stopped") =>
    /\ arm \in {"music_love_track", "music_dislike_track"} =>
         /\ resp = Result(<<"No track is playing">>, FALSE)
         /\ world.loved = call.before.loved
         /\ world.disliked = call.before.disliked
    /\ arm = "music_get_current_track" =>
         resp = Result(<<"No track is currently playing">>, FALSE)

\* music_love_track ran on a stopped player whose library has a loved and
\* a disliked track
C13_Witness ==
  /\ Ran
  /\ arm = "music_love_track"
  /\ call.before.state = "stopped"
  /\ world.loved # {}
  /\ world.disliked # {}
  /\ resp.text = <<"No track is playing">>

ListingArms == {"music_get_playlists", "music_get_playlist_tracks", "music_search_library"}

\* what the listing or search would list is empty: no playlists, a named
\* playlist without tracks, or no match
EmptyResultSet ==
  CASE arm = "music_get_playlists" -> library.playlists = << >>
    [] arm = "music_get_playlist_tracks" ->
         \A i \in 1..Len(library.playlists) :
           library.playlists[i].name = Named.value => library.playlists[i].tracks = << >>
    [] arm = "music_search_library" -> NoMatch

\* C19: when a listing or search ran and what it would list is empty, the
\* result text is an explicit message ("Playlist is empty", or a not-found
\* message naming the value), never the empty text and never a heading
\* with nothing under it.
C19_EmptyResultExplained ==
  (Ran /\ arm \in ListingArms /\ EmptyResultSet) =>
    /\ resp.text # << >>
    /\ resp.text # <<"Playlists:", NL>>
    /\ arm # "music_get_playlists" =>
         resp.text \in {<<"Playlist is empty">>, <<Named.message>> \o Named.value}

\* C20: at most one external command is in flight: while execSync runs a
\* request's command, the only step the server takes is the end of that
\* command, for the same request, and no second command is started before
\* the response is produced.
C20_OneCommandInFlight ==
  [][(pc = "exec") =>
       /\ pc' = "done"
       /\ req' = req
       /\ nexec' = 1
       /\ call'.command = call.command
       /\ call'.status \in {"returned", "threw"}]_vars

\* a command is in flight after a discovery request and an invocation
\* that failed were served
C20_Witness ==
  /\ pc = "exec"
  /\ nexec = 1
  /\ call.status = "running"
  /\ listed.seen
  /\ listed.failed

\* C23: when the get_shuffle command succeeded, the result is not an error
\* and its text is "Shuffle: on" exactly when the trimmed output of the
\* command is "true", and "Shuffle: off" for every other output.
C23_ShuffleTextFromOutput ==
  (Ran /\ arm = "music_get_shuffle") =>
    /\ ~resp.isError
    /\ resp.text \in {<<"Shuffle: ", "on">>, <<"Shuffle: ", "off">>}
    /\ resp.text = <<"Shuffle: ", "on">> <=> Trim(call.stdout) = <<"true">>

\* get_shuffle answered off for a player whose shuffle is off, after
\* printing something other than "true"
C23_Witness ==
  /\ Ran
  /\ arm = "music_get_shuffle"
  /\ Trim(call.stdout) = <<"false">>
  /\ ~world.shuffle
  /\ resp.text = <<"Shuffle: ", "off">>

\* C24: an invocation executes at most one external command: none before
\* the handler reaches execSync, exactly one from then until the response
\* is sent, whatever the command's outcome; a command that failed is not
\* run again and no other command follows it.
C24_AtMostOneCommand ==
  /\ nexec <= 1
  /\ pc = "idle" => nexec = 0
  /\ call.k = "call" => nexec = 1
  /\ (pc = "done" /\ call.k # "call") => nexec = 0

\* an invocation whose only command failed has its error result ready
C24_Witness ==
  /\ pc = "done"
  /\ arm = "music_play_playlist"
  /\ call.k = "call"
  /\ call.status = "threw"
  /\ nexec = 1
  /\ resp.isError

\* the argument each of these tools requires (its schema's required list)
RequiredArgument ==
  [music_set_volume |-> "volume", music_set_position |-> "position",
   music_set_shuffle |-> "enabled", music_set_repeat |-> "mode",
   music_get_playlist_tracks |-> "playlist", music_play_playlist |-> "playlist",
   music_search_library |-> "query", music_play_song |-> "song",
   music_play_album |-> "album", music_play_artist |-> "artist",
   music_add_to_queue |-> "song"]

\* the request being handled lacks the argument its tool requires: it has
\* no argument mapping, or the mapping lacks the key
RequiredArgumentAbsent ==
  /\ req.kind = "call"
  /\ arm \in DOMAIN RequiredArgument
  /\ \/ req.args.t = "undef"
     \/ Get(req.args, RequiredArgument[arm]) = Undef

\* C26: an invocation that lacks its required argument executes no
\* external command and ends with an error result.
C26_AbsentArgumentIsError ==
  RequiredArgumentAbsent =>
    /\ pc # "exec"
    /\ nexec = 0
    /\ call.k = "none"
    /\ pc = "done" => resp.isError

\* C27: when set_repeat returns a non-error result, the mode named in the
\* result text "Repeat mode set to <mode>" is the mode the generated command
\* sets on the player.
C27_RepeatTextNamesModeSet ==
  (/\ pc = "done"
   /\ arm = "music_set_repeat"
   /\ Invoked("music_set_repeat")
   /\ Get(req.args, "mode").t = "str"
   /\ resp.k = "result"
   /\ ~resp.isError) =>
    resp.text = <<"Repeat mode set to ">> \o call.env["${repeatValue}"]

\* the scope of the search the request asks for
SearchScope ==
  IF StrictEq(Get(req.args, "searchType"), <<"albums">>) THEN "albums"
  ELSE IF StrictEq(Get(req.args, "searchType"), <<"artists">>) THEN "artists"
  ELSE "songs"

\* the tracks of the library the search matches, in library order
SearchMatches ==
  LET q == Get(req.args, "query").v
      matching == CASE SearchScope = "albums" -> Holding("album", q)
                    [] SearchScope = "artists" -> Holding("artist", q)
                    [] OTHER -> Holding("name", q) \cup Holding("artist", q)
                                  \cup Holding("album", q)
  IN  SelectSeq([i \in 1..Len(library.tracks) |-> i], LAMBDA i : i \in matching)

\* the lines of a text
RECURSIVE Lines(_)
Lines(text) ==
  IF text = << >> THEN << >>
  ELSE IF \E i \in 1..Len(text) : text[i] = NL
       THEN LET i == CHOOSE i \in 1..Len(text) :
                       text[i] = NL /\ \A j \in 1..(i - 1) : text[j] # NL
            IN  <<SubSeq(text, 1, i - 1)>> \o Lines(SubSeq(text, i + 1, Len(text)))
       ELSE <<text>>

\* the entries a search or a playlist listing lists in its result: the
\* lines of the text, none when the text is the tool's message for nothing
\* to list
Entries ==
  IF resp.text \in {<<Named.message>> \o Named.value, <<"Playlist is empty">>}
  THEN << >>
  ELSE Lines(resp.text)

\* the most entries the request allows: its limit, the declared default
\* when absent; no entry for a limit below 0
SearchCap ==
  LET limit == Default(Get(req.args, "limit"), Num(DefaultSearchLimit)).v
  IN  IF limit < 0 THEN 0 ELSE limit

SongLine(t) == t.name \o <<SP, "-", SP>> \o t.artist \o <<SP, "(">> \o t.album \o <<")">>

AlbumLine(t) == t.album \o <<SP, "-", SP>> \o t.albumArtist

\* C21: a search that ran lists at most limit entries; an album search
\* lists no two entries with the same album and album artist and an artist
\* search no artist twice, each entry being that of a matching track; a
\* song search lists one entry per matching track, in library order, up
\* to the limit.
C21_SearchListsUpToLimitDeduplicated ==
  (Ran /\ arm = "music_search_library") =>
    LET found == SearchMatches
        shown == IF Len(found) < SearchCap THEN Len(found) ELSE SearchCap
    IN  /\ Len(Entries) <= SearchCap
        /\ SearchScope = "songs" =>
             Entries = [i \in 1..shown |-> SongLine(library.tracks[found[i]])]
        /\ SearchScope # "songs" =>
             /\ \A i, j \in 1..Len(Entries) : i # j => Entries[i] # Entries[j]
             /\ \A i \in 1..Len(Entries) : \E k \in 1..Len(found) :
                  Entries[i] = IF SearchScope = "albums"
                               THEN AlbumLine(library.tracks[found[k]])
                               ELSE library.tracks[found[k]].artist

\* an album search without a limit listed the one album of the two
\* matching tracks of SmallLibrary once
C21_Witness ==
  /\ Ran
  /\ arm = "music_search_library"
  /\ library = SmallLibrary
  /\ SearchScope = "albums"
  /\ Get(req.args, "limit") = Undef
  /\ Len(SearchMatches) = 2
  /\ Entries = <<<<"a", "c", SP, "-", SP, "a", "b">>>>

\* the album and album artist pairs of the tracks the search matches
MatchedAlbums ==
  {<<library.tracks[SearchMatches[k]].album, library.tracks[SearchMatches[k]].albumArtist>> :
     k \in 1..Len(SearchMatches)}

\* C29: an album search that ran merges two matching tracks into one entry
\* only if they have the same album and the same album artist: up to the
\* limit, it lists as many entries as the matching tracks have distinct
\* pairs of album and album artist.
C29_AlbumsMergedOnlyWhenEqual ==
  (Ran /\ arm = "music_search_library" /\ SearchScope = "albums") =>
    Len(Entries) = IF Cardinality(MatchedAlbums) < SearchCap
                   THEN Cardinality(MatchedAlbums) ELSE SearchCap

\* the playlist the request names has a track
PlaylistHasTracks ==
  \E i \in 1..Len(library.playlists) :
    /\ library.playlists[i].name = Get(req.args, "playlist").v
    /\ \A j \in 1..(i - 1) : library.playlists[j].name # library.playlists[i].name
    /\ library.playlists[i].tracks # << >>

\* C30: for search_library and get_playlist_tracks that ran, with any
\* limit, the result is the empty or not-found message ("No results found
\* for", "No albums found for", "No artists found for", "Playlist is empty")
\* only when no track matches the query or the playlist has no tracks;
\* when a track matches, at least one entry is listed.
C30_EmptyMessageOnlyWhenEmpty ==
  /\ (Ran /\ arm = "music_search_library" /\ Len(SearchMatches) > 0) =>
       /\ resp.text # <<Named.message>> \o Named.value
       /\ Len(Entries) >= 1
  /\ (Ran /\ arm = "music_get_playlist_tracks" /\ PlaylistHasTracks) =>
       /\ resp.text # <<"Playlist is empty">>
       /\ Len(Entries) >= 1

\* the statement that starts playback in the script of music_play_song,
\* where the script of music_add_to_queue only reads the track
PlayStatement == music_play_song_script[7]

\* the tracks the song and artist of the request match
QueueMatches ==
  {i \in Holding("name", Get(req.args, "song").v) : ArtistAdmits(library.tracks[i].artist)}

C28_ShuffleNeverTurnedOff ==
  (pc = "done" /\ arm \in ShuffleArms /\ call.k = "call" /\ call.status = "returned") =>
    /\ call.before.shuffle => world.shuffle
    /\ ~EffectiveShuffle => world.shuffle = call.before.shuffle
    /\ (arm = "music_play_artist" /\ Holding("artist", Get(req.args, "artist").v) = {}) =>
         world = call.before

\* with shuffle on, play_playlist was called with shuffle false for a
\* playlist with tracks: the playlist plays and shuffle is still on
C28_Witness ==
  /\ Ran
  /\ arm = "music_play_playlist"
  /\ Get(req.args, "shuffle") = Bool(FALSE)
  /\ call.before.shuffle
  /\ call.before.state = "stopped"
  /\ world.shuffle
  /\ world.state = "playing"

\* C25: for every script text passed to runAppleScriptMulti, over an
\* alphabet with backslash, double quote, dollar sign and backtick, what
\* the shell reads from the double-quoted literal of the command is exactly
\* the script text: nothing is expanded, substituted or executed.
C25_ShellReadsScript ==
  (pc = "done" /\ call.k = "shell") => call.argument = call.script

====
